---- MODULE Spec2Model ----
(***************************************************************************)
(* Model of the agent orchestration core of bubbleAI:                      *)
(*   - generateContentStreamWithRetry, the retrying stream client;         *)
(*   - runAutonomousAgent, the orchestration loop and its skill handlers;  *)
(*   - the redirect detection the SIMPLE handler runs on its own output.   *)
(*                                                                         *)
(* A text is a sequence of tokens; the string it stands for is the         *)
(* concatenation of its tokens.  The tokens are the bracketed markers, the *)
(* word "deep" (in two spellings), a blank, a line break and an opaque     *)
(* word, so no marker can arise from the concatenation of other tokens.    *)
(***************************************************************************)
EXTENDS Naturals, Integers, Sequences, FiniteSets, TLC

\* ------------------------------------------------------------------ bounds

\* Largest retry ceiling the stand-alone wrapper is called with.
MaxRetries == 4
\* Largest number of chunks one upstream stream yields.
MaxChunks == 2
\* Within a turn, an upstream that answers at all answers after at most this
\* many failed attempts of one call; otherwise it fails every attempt.
MaxRecoveries == 1
\* Largest number of segments of a text handed to redirect detection.
MaxSegs == 3
\* Largest number of pieces of a text handed to parseMessageContent.
MaxPieces == 3
\* Largest number of earlier turns in a chat history.
MaxTurns == 2
\* Largest number of citation records a written message holds.
MaxCitations == 1
\* Largest number of calls of saveMemory.
MaxSaves == 2
\* Largest number of calls of handleSendMessage.
MaxSends == 2
\* Largest number of times the active chat is set.
MaxSelects == 2
\* Largest number of chunks a send's agent streams.
MaxStreamed == 2
\* Calls of deleteMessage, updateMessage, deleteProject, deleteUser and of
\* the setMessages the hook returns, in a behaviour of the hook.
MaxEdits == 1
\* Largest number of calls the component makes in a behaviour of the hook:
\* sends, choices of the active chat, edits of the table or the list.
MaxCalls == 2
\* Largest number of progress notes of the research collaborator.
MaxProgress == 1

\* --------------------------------------------------------- program constants

\* const MAX_LOOPS = 2
MAX_LOOPS == 2
\* retries = 3 (the default, and what every handler passes)
DefaultRetries == 3

\* ------------------------------------------------------------------ helpers

Undefined == "undefined"

Min(S) == CHOOSE m \in S : \A n \in S : m <= n

IsPrefix(s, t) == Len(s) <= Len(t) /\ SubSeq(t, 1, Len(s)) = s

RECURSIVE Flatten(_)
Flatten(ss) == IF ss = <<>> THEN <<>> ELSE Head(ss) \o Flatten(Tail(ss))

\* Math.pow(2, n)
RECURSIVE Pow2(_)
Pow2(n) == IF n = 0 THEN 1 ELSE 2 * Pow2(n - 1)

\* ------------------------------------------------------------------- texts

NL == "\n"
SP == " "
Kinds == {"DEEP", "SEARCH", "THINK", "IMAGE", "PROJECT", "CANVAS", "STUDY"}
OpenTag(k) == "<" \o k \o ">"
CloseTag(k) == "</" \o k \o ">"
\* The lower-case spelling of the SEARCH marker, which only a
\* case-insensitive pattern matches.
OpenSearchLower == "<search>"
CloseSearchLower == "</search>"
\* \s of a regular expression
IsSpace(tok) == tok \in {SP, NL}
\* "deep" under the i flag
IsDeepWord(tok) == tok \in {"deep", "Deep"}

\* String.prototype.trim on a text: leading and trailing white space goes.
RECURSIVE TrimLeft(_)
TrimLeft(t) == IF t # <<>> /\ IsSpace(Head(t)) THEN TrimLeft(Tail(t)) ELSE t
RECURSIVE TrimRight(_)
TrimRight(t) ==
    IF t # <<>> /\ IsSpace(t[Len(t)]) THEN TrimRight(SubSeq(t, 1, Len(t) - 1)) ELSE t
Trim(t) == TrimRight(TrimLeft(t))

\* ------------------------------------------------- regular-expression matches

\* The result of String.prototype.match: null, or the match with its first
\* capture group, which is undefined when the pattern has no group.
NoMatch == [found |-> FALSE, hasGroup |-> FALSE, group |-> <<>>]
Matched(g) == [found |-> TRUE, hasGroup |-> TRUE, group |-> g]
MatchedNoGroup == [found |-> TRUE, hasGroup |-> FALSE, group |-> <<>>]

\* Mutant: the group is greedy and runs to the last closing token.
LastClose(t, i, closes) ==
    LET js == {j \in (i + 1)..Len(t) : t[j] \in closes}
    IN IF js = {} THEN 0 ELSE CHOOSE j \in js : \A k \in js : k <= j

\* The first position after i holding one of the closing tokens, 0 if none.
FirstClose(t, i, closes) ==
    LET js == {j \in (i + 1)..Len(t) : t[j] \in closes}
    IN IF js = {} THEN 0 ELSE Min(js)

\* Whether  (.*?)close  matches from position i + 1 on: the lazy group
\* stops at the first closing token, and "." matches no line break.
LazyTo(t, i, closes) ==
    LET j == FirstClose(t, i, closes)
    IN j # 0 /\ \A m \in (i + 1)..(j - 1) : t[m] # NL

\* text.match(/<K>(.*?)<\/K>/) with the opening tokens opens and the closing
\* tokens closes: the leftmost opening token from which the pattern matches.
MatchPair(t, opens, closes) ==
    LET starts == {i \in 1..Len(t) : t[i] \in opens /\ LazyTo(t, i, closes)}
    IN IF starts = {} THEN NoMatch
       ELSE LET i == Min(starts)
            IN Matched(SubSeq(t, i + 1, FirstClose(t, i, closes) - 1))

\* The end of the run of white space that starts at position i (i - 1 if
\* position i holds none): \s+ is greedy, and giving back white space never
\* lets the rest of the pattern match where it did not.
RECURSIVE SpaceRunEnd(_, _)
SpaceRunEnd(t, i) ==
    IF i <= Len(t) /\ IsSpace(t[i]) THEN SpaceRunEnd(t, i + 1) ELSE i - 1

\* text.match(/<SEARCH>deep\s+(.*?)<\/SEARCH>/i)
MatchSearchDeep(t) ==
    LET opens == {OpenTag("SEARCH"), OpenSearchLower}
        closes == {CloseTag("SEARCH"), CloseSearchLower}
        starts == {i \in 1..Len(t) :
                     /\ t[i] \in opens
                     /\ i + 2 <= Len(t)
                     /\ IsDeepWord(t[i + 1])
                     /\ IsSpace(t[i + 2])
                     /\ LazyTo(t, SpaceRunEnd(t, i + 2), closes)}
    IN IF starts = {} THEN NoMatch
       ELSE LET i == Min(starts)
                e == SpaceRunEnd(t, i + 2)
            IN Matched(SubSeq(t, e + 1, FirstClose(t, e, closes) - 1))

\* text.match(/<K>(.*?)<\/K>/) for a marker kind K
MatchKind(t, k) == MatchPair(t, {OpenTag(k)}, {CloseTag(k)})

\* text.match(/<THINK>/)
MatchThinkOpen(t) ==
    IF \E i \in 1..Len(t) : t[i] = OpenTag("THINK") THEN MatchedNoGroup ELSE NoMatch

\* a || b  on two match results
OrMatch(a, b) == IF a.found THEN a ELSE b

searchMatch(t) == MatchKind(t, "SEARCH")
deepMatch(t) == OrMatch(MatchKind(t, "DEEP"), MatchSearchDeep(t))
thinkMatch(t) == OrMatch(MatchKind(t, "THINK"), MatchThinkOpen(t))
imageMatch(t) == MatchKind(t, "IMAGE")
projectMatch(t) == MatchKind(t, "PROJECT")
canvasMatch(t) == MatchKind(t, "CANVAS")
studyMatch(t) == MatchKind(t, "STUDY")

\* Mutant: the fallback is taken only for an undefined group.
ThinkPromptUndefinedOnly(m, prompt) == IF m.hasGroup THEN Trim(m.group) ELSE prompt

\* thinkMatch[1] ? thinkMatch[1].trim() : prompt
\* (an undefined group and the empty string are both falsy)
ThinkPrompt(m, prompt) ==
    IF m.hasGroup /\ m.group # <<>> THEN Trim(m.group) ELSE prompt

NoRedirect == [redirect |-> FALSE, action |-> "SIMPLE", prompt |-> <<>>, setParam |-> FALSE]

\* Mutant: every link of the chain asks for SIMPLE again.
RedirectToSimple(a, p, sp) ==
    [redirect |-> TRUE, action |-> "SIMPLE", prompt |-> p, setParam |-> sp]

\* currentAction = a; currentPrompt = p; continue;
RedirectTo(a, p, sp) == [redirect |-> TRUE, action |-> a, prompt |-> p, setParam |-> sp]

\* Mutant: the SEARCH link is tested before the DEEP_SEARCH link.
RedirectOrderSearchFirst ==
    <<"SEARCH", "DEEP_SEARCH", "THINK", "IMAGE", "PROJECT", "CANVAS", "STUDY">>

\* The order of the chain of
\*   if (xMatch) { currentAction = ...; currentPrompt = ...; continue; }
\* that ends the SIMPLE handler.
RedirectOrder == <<"DEEP_SEARCH", "SEARCH", "THINK", "IMAGE", "PROJECT", "CANVAS", "STUDY">>

\* The match each link of the chain tests.
MatchFor(t, a) ==
    CASE a = "DEEP_SEARCH" -> deepMatch(t)
      [] a = "SEARCH" -> searchMatch(t)
      [] a = "THINK" -> thinkMatch(t)
      [] a = "IMAGE" -> imageMatch(t)
      [] a = "PROJECT" -> projectMatch(t)
      [] a = "CANVAS" -> canvasMatch(t)
      [] a = "STUDY" -> studyMatch(t)

\* The assignments of the link for action a; setParam says that
\* routing.parameters is set to the new prompt too (IMAGE only).
RedirectFor(t, a, prompt) ==
    RedirectTo(a,
               IF a = "THINK" THEN ThinkPrompt(thinkMatch(t), prompt) ELSE MatchFor(t, a).group,
               a = "IMAGE")

\* The chain: the first link whose match is not null is taken.
DetectRedirect(t, prompt) ==
    LET hits == {n \in 1..Len(RedirectOrder) : MatchFor(t, RedirectOrder[n]).found}
    IN IF hits = {} THEN NoRedirect ELSE RedirectFor(t, RedirectOrder[Min(hits)], prompt)

\* ------------------------------------------------------------------ errors

\* A value that is thrown: its status property and its message, and whether
\* it is an instance of Error.  The status is the number 429, the number
\* 500, the string '429' (which === 429 rejects) or absent; the message is a
\* string of characters or absent.
Chars429 == <<"4", "2", "9">>
CharsQuota == <<"q", "u", "o", "t", "a">>
Err(st, hm, m) == [status |-> st, hasMessage |-> hm, message |-> m, isError |-> TRUE]
\* A plain object that is thrown: { status, message }
Plain(st, hm, m) == [Err(st, hm, m) EXCEPT !.isError = FALSE]
\* The errors an upstream attempt fails with: four of the quota class (by
\* status, by '429' in the message, by 'quota' in the message) and four not.
Errors ==
    { Err("num429", FALSE, <<>>),
      Err(Undefined, TRUE, <<"E", "r", "r", " ", "4", "2", "9", "!">>),
      Err(Undefined, TRUE, <<"q", "u", "o", "t", "a", " ", "h", "i", "t">>),
      Err("num500", TRUE, <<"q", "u", "o", "t", "a", " ", "h", "i", "t">>),
      Err(Undefined, FALSE, <<>>),
      Err(Undefined, TRUE, <<>>),
      Err("str429", TRUE, <<"Q", "u", "o", "t", "a", " ", "4", "2", "-", "9">>),
      Err("num500", TRUE, <<"r", "a", "t", "e", " ", "l", "i", "m", "i", "t", "e", "d">>) }
NoError == Err("none", FALSE, <<>>)
\* new Error("Max retries exceeded")
MaxRetriesExceeded ==
    Err(Undefined, TRUE,
        <<"M", "a", "x", " ", "r", "e", "t", "r", "i", "e", "s", " ",
          "e", "x", "c", "e", "e", "d", "e", "d">>)

\* String.prototype.includes
Includes(s, sub) ==
    \E i \in 1..(Len(s) - Len(sub) + 1) : SubSeq(s, i, i + Len(sub) - 1) = sub

\* error.status === 429 || (error.message && error.message.includes('429'))
\*                      || (error.message && error.message.includes('quota'))
isQuotaError(e) ==
    \/ e.status = "num429"
    \/ (e.hasMessage /\ e.message # <<>> /\ Includes(e.message, Chars429))
    \/ (e.hasMessage /\ e.message # <<>> /\ Includes(e.message, CharsQuota))

\* What the collaborators (router, memory store, research, canvas,
\* upstream one-shot call, file reader, a broken stream) fail with: two
\* instances of Error, and a plain object with a status and a message.
CollabErrors ==
    { Err("num429", TRUE, <<"q", "u", "o", "t", "a", " ", "h", "i", "t">>),
      Err(Undefined, TRUE, <<"r", "a", "t", "e", " ", "l", "i", "m", "i", "t", "e", "d">>),
      Plain("num429", TRUE, <<"q", "u", "o", "t", "a", " ", "h", "i", "t">>) }

\* --------------------------------------------------------------- the state

VARIABLES
    pc,                 \* position of runAutonomousAgent ("wrapper": the retry
                        \* wrapper is called on its own)
    rpc,                \* position of generateContentStreamWithRetry
    retries,            \* its retry ceiling
    hasOnRetry,         \* whether it was given a progress callback
    attempt,            \* its loop variable
    caught,             \* the error its catch block holds (and, in the
                        \* IMAGE handler, the one that handler's catch holds)
    rerr,               \* the error it threw
    inFlight,           \* upstream calls started and not yet settled
    rtrace,             \* what the wrapper did, in order: calls, failures,
                        \* callbacks, sleeps
    sink,               \* what onStreamChunk was given, in order
    loopCount,
    currentAction,
    currentPrompt,
    routingParam,       \* routing.parameters?.prompt
    finalResponseText,
    generatedThisLoop,
    metadataPayload,    \* its groundingMetadata key
    nchunks,            \* chunks consumed from the open stream
    chunk,              \* the chunk the for-await loop holds
    thinkingCount,      \* the usage counter
    result,             \* the AgentResult returned
    returns,            \* how many times the turn returned
    raised,             \* whether the turn raised to its caller
    content,            \* the message text given to parseMessageContent
    shown,              \* what parseMessageContent returned for it
    reshown,            \* what it returned for the clean text of shown
    calls,              \* the collaborators the turn called outside the
                        \* retrying client, in order
    history,            \* input.history: the chat's earlier turns
    contents,           \* the contents THINK or SIMPLE sends upstream
    messages,           \* useChat: the messages state
    activeChat,         \* useChat: the activeChat state (a chat id or none)
    activeChatIdRef,    \* useChat: activeChatIdRef.current
    isSendingRef,       \* useChat: isSendingRef.current
    sends,              \* the calls of handleSendMessage, each with its locals
    timers,             \* pending timers of  setTimeout(..., 500)
    now,                \* Date.now()
    db,                 \* the rows of the messages table, oldest first
    inbox,              \* INSERT events the realtime channel has yet to deliver
    fetches,            \* calls of getMessages under way
    selects,            \* how often the active chat was set
    edits,              \* the calls of the table's other functions and of setMessages
    inserted,           \* the rows the messages table was ever given
    supabase,           \* whether the hook has a client of the backing store
    effectsPending,     \* a chat was committed and its effects have yet to run
    memories,           \* the rows of the memories table
    saves,              \* the calls of saveMemory, each with its locals
    appMessage,         \* the message given to addMessage
    dbRow,              \* the row addMessage wrote
    roundTrip           \* the message addMessage returned

vars == <<pc, rpc, retries, hasOnRetry, attempt, caught, rerr, inFlight, rtrace,
          sink, loopCount, currentAction, currentPrompt, routingParam,
          finalResponseText, generatedThisLoop, metadataPayload, nchunks,
          chunk, thinkingCount, result, returns, raised, content, shown, reshown,
          calls, history, contents, messages, activeChat, activeChatIdRef,
          isSendingRef, sends, timers, now, db, inbox, fetches, selects,
          edits, inserted, supabase, effectsPending, memories, saves, appMessage, dbRow, roundTrip>>

displayVars == <<content, shown, reshown>>
wrapperVars == <<rpc, retries, hasOnRetry, attempt, caught, rerr, inFlight, rtrace>>
agentVars == <<loopCount, currentAction, currentPrompt, routingParam,
               finalResponseText, generatedThisLoop, metadataPayload, nchunks,
               chunk, thinkingCount, result, returns, raised>>
turnVars == <<calls, history, contents>>
chatVars == <<messages, activeChat, activeChatIdRef, isSendingRef, sends, timers, now,
              db, inbox, fetches, selects, edits, inserted, supabase, effectsPending>>
memoryVars == <<memories, saves>>
mappingVars == <<appMessage, dbRow, roundTrip>>
serviceVars == <<chatVars, memoryVars, mappingVars>>

\* The turn's top-level prompt.
TopPrompt == <<"hello">>

\* A chunk of an upstream stream: optional text and optional grounding
\* chunks (candidates?.[0]?.groundingMetadata?.groundingChunks).
Chunk(t, hg, g) == [text |-> t, hasGrounding |-> hg, grounding |-> g]
NoChunk == [text |-> <<"(none)">>, hasGrounding |-> FALSE, grounding |-> <<>>]

NoParam == [has |-> FALSE, prompt |-> <<>>]
NoMetadata == [has |-> FALSE, groundingMetadata |-> <<>>]
NoResult == [kind |-> "none", project_id |-> "", chat_id |-> "", sender |-> "",
             text |-> <<>>, hasImage |-> FALSE,
             hasGroundingMetadata |-> FALSE, groundingMetadata |-> <<>>]
\* A string or null.
Null == [isNull |-> TRUE, text |-> <<>>]
Str(s) == [isNull |-> FALSE, text |-> s]
\* Nothing parsed yet.
NotParsed == [thinking |-> Null, canvas |-> Null, clean |-> <<"(not parsed)">>]
\* No message is being displayed.
InitDisplayIdle ==
    /\ content = <<>>
    /\ shown = NotParsed
    /\ reshown = NotParsed

\* activeChat is null.
NoChat == "none"
\* An object without keys.
EmptyObject == <<>>

\* The hook is mounted and nothing happened: no chat is active, no message is
\* listed, nothing is being sent.
InitChatIdle ==
    /\ messages = <<>>
    /\ activeChat = NoChat
    /\ activeChatIdRef = NoChat
    /\ isSendingRef = FALSE
    /\ sends = <<>>
    /\ timers = 0
    /\ now = 0
    /\ db = <<>>
    /\ inbox = <<>>
    /\ fetches = {}
    /\ selects = 0
    /\ edits = 0
    /\ inserted = 0
    /\ supabase = TRUE
    /\ effectsPending = FALSE

\* No memory is stored, none is being saved.
InitMemoryIdle ==
    /\ memories = <<>>
    /\ saves = <<>>

\* No message is being written.
InitMappingIdle ==
    /\ appMessage = EmptyObject
    /\ dbRow = EmptyObject
    /\ roundTrip = EmptyObject

InitServicesIdle == InitChatIdle /\ InitMemoryIdle /\ InitMappingIdle

\* const { ..., project, chat, ... } = input: the turn's project.id and chat.id
ProjectId == "project-1"
ChatId == "chat-1"

\* A turn of the chat history: its sender and its text.
Turn(s, t) == [sender |-> s, text |-> t]

\* The history the turn under way is given: a user turn, an answer that is
\* still empty, an answer, a turn of white space.
ChatHistory ==
    << Turn("user", <<"hi">>), Turn("ai", <<>>), Turn("ai", <<"x">>),
       Turn("user", <<SP>>) >>

\* One entry of the contents sent upstream: { role, parts: [{ text }] }
Part(role, t) == [role |-> role, text |-> t]

\* Mutant: only the sender 'ai' gets the role 'model'.
RoleOfAiOnly(sender) == IF sender = "ai" THEN "model" ELSE "user"

\* role: msg.sender === 'user' ? 'user' : 'model'
RoleOf(sender) == IF sender = "user" THEN "user" ELSE "model"

\* history.map(msg => ({ role, parts: [{ text: msg.text }] }))
\*        .filter(msg => msg.parts[0].text.trim() !== '')
geminiHistory(h) ==
    SelectSeq([i \in 1..Len(h) |-> Part(RoleOf(h[i].sender), h[i].text)],
              LAMBDA msg : Trim(msg.text) # <<>>)

\* const contents = [...geminiHistory, { role: 'user', parts: ... }]: the
\* last entry holds the current prompt (in THINK, at the end of the context
\* block).
ContentsFor(h, prompt) == geminiHistory(h) \o <<Part("user", prompt)>>

\* Nothing was sent upstream yet.
NoContents == <<>>

\* No collaborator was called yet, no contents were built.
InitTurnVars ==
    /\ calls = <<>>
    /\ history = ChatHistory
    /\ contents = NoContents

\* --------------------------------------------- generateContentStreamWithRetry

\* Mutant: the loop stops one attempt early.
LoopConditionStrict(a, r) == a < r

\* for (...; attempt <= retries; ...)
LoopCondition(a, r) == a <= r

\* Mutant: every error is retried while attempts remain.
ShouldRetryAnyError(e, a, r) == a < r

\* if (isQuotaError && attempt < retries)
ShouldRetry(e, a, r) == isQuotaError(e) /\ a < r

\* Mutant: the delay grows linearly.
DelayLinear(a) == (a + 1) * 2000 + 1000

\* Math.pow(2, attempt) * 2000 + 1000
Delay(a) == Pow2(a) * 2000 + 1000

\* Math.round(delay / 1000)
RoundSeconds(d) == (d + 500) \div 1000

\* `(Rate limit hit. Retrying in ${Math.round(delay/1000)}s...)`
RetryMessage(d) == [kind |-> "retry", body |-> <<>>, secs |-> RoundSeconds(d)]

EvCall == [ev |-> "call", quota |-> FALSE, n |-> 0]
EvFail(e) == [ev |-> "fail", quota |-> isQuotaError(e), n |-> 0]
EvCallback(d) == [ev |-> "callback", quota |-> FALSE, n |-> RoundSeconds(d)]
EvSleep(d) == [ev |-> "sleep", quota |-> FALSE, n |-> d]

\* Mutant: the callback is called once the sleep is over.
SleepThenNotify(cb, d) ==
    <<EvSleep(d)>> \o (IF cb THEN <<EvCallback(d)>> ELSE <<>>)

\* if (onRetry) onRetry(...);  await new Promise(resolve => setTimeout(resolve, delay));
NotifyThenSleep(cb, d) ==
    (IF cb THEN <<EvCallback(d)>> ELSE <<>>) \o <<EvSleep(d)>>

\* The wrapper is entered with ceiling r and, or not, a callback.
EnterWrapper(r, cb) ==
    /\ rpc' = "loop"
    /\ retries' = r
    /\ hasOnRetry' = cb
    /\ attempt' = 0
    /\ caught' = NoError
    /\ rerr' = NoError
    /\ rtrace' = <<>>
    /\ UNCHANGED inFlight

\* The awaiting caller resumes: the call's frame (attempt, the caught error) is
\* gone.
LeaveWrapper ==
    /\ attempt' = 0
    /\ caught' = NoError
    /\ rerr' = NoError
    /\ rtrace' = <<>>

\* The head of the for loop: the next upstream call is started, or the loop
\* is left and "Max retries exceeded" is thrown.
RetryLoopHead ==
    /\ rpc = "loop"
    /\ IF LoopCondition(attempt, retries)
       THEN /\ rpc' = "calling"
            /\ inFlight' = inFlight + 1
            /\ rtrace' = Append(rtrace, EvCall)
            /\ caught' = NoError
            /\ UNCHANGED rerr
       ELSE /\ rpc' = "threw"
            /\ rerr' = MaxRetriesExceeded
            /\ UNCHANGED <<inFlight, rtrace, caught>>
    /\ UNCHANGED <<retries, hasOnRetry, attempt, pc, sink, agentVars>>
    /\ UNCHANGED <<displayVars, serviceVars, turnVars>>

\* return await ai.models.generateContentStream(params)
AttemptSucceeds ==
    /\ rpc = "calling"
    /\ pc = "wrapper" \/ attempt <= MaxRecoveries
    /\ rpc' = "returned"
    /\ inFlight' = inFlight - 1
    /\ UNCHANGED <<retries, hasOnRetry, attempt, caught, rerr, rtrace, pc, sink, agentVars>>
    /\ UNCHANGED <<displayVars, serviceVars, turnVars>>

\* What the catch block does with error e: warn, call back and start the
\* backoff sleep, or rethrow.
CatchAttempt(e) ==
    IF ShouldRetry(e, attempt, retries)
    THEN /\ rpc' = "sleeping"
         /\ rtrace' = rtrace \o <<EvFail(e)>> \o NotifyThenSleep(hasOnRetry, Delay(attempt))
         /\ sink' = IF hasOnRetry /\ pc # "wrapper"
                    THEN Append(sink, RetryMessage(Delay(attempt)))
                    ELSE sink
         /\ UNCHANGED rerr
    ELSE /\ rpc' = "threw"
         /\ rerr' = e
         /\ rtrace' = Append(rtrace, EvFail(e))
         /\ UNCHANGED sink

\* The upstream call fails with e.
AttemptFails ==
    /\ rpc = "calling"
    /\ \E e \in Errors :
         /\ caught' = e
         /\ inFlight' = inFlight - 1
         /\ CatchAttempt(e)
    /\ UNCHANGED <<retries, hasOnRetry, attempt, pc, agentVars>>
    /\ UNCHANGED <<displayVars, serviceVars, turnVars>>

\* Mutant: the loop variable is not advanced.
NextAttemptSame(a) == a

\* attempt++
NextAttempt(a) == a + 1

\* The backoff timer fires; attempt++.
SleepEnds ==
    /\ rpc = "sleeping"
    /\ rpc' = "loop"
    /\ attempt' = NextAttempt(attempt)
    /\ UNCHANGED <<retries, hasOnRetry, caught, rerr, inFlight, rtrace, pc, sink, agentVars>>
    /\ UNCHANGED <<displayVars, serviceVars, turnVars>>

WrapperNext == RetryLoopHead \/ AttemptSucceeds \/ AttemptFails \/ SleepEnds

InitAgentVars ==
    /\ loopCount = 0
    /\ currentAction = "SIMPLE"
    /\ currentPrompt = TopPrompt
    /\ routingParam = NoParam
    /\ finalResponseText = <<>>
    /\ generatedThisLoop = <<>>
    /\ metadataPayload = NoMetadata
    /\ nchunks = 0
    /\ chunk = NoChunk
    /\ thinkingCount = 0
    /\ result = NoResult
    /\ returns = 0
    /\ raised = FALSE
    /\ InitTurnVars

\* The wrapper called on its own, with any ceiling, with or without callback.
InitRetry ==
    /\ pc = "wrapper"
    /\ rpc = "loop"
    /\ retries \in 0..MaxRetries
    /\ hasOnRetry \in BOOLEAN
    /\ attempt = 0
    /\ caught = NoError
    /\ rerr = NoError
    /\ inFlight = 0
    /\ rtrace = <<>>
    /\ sink = <<>>
    /\ InitAgentVars
    /\ InitDisplayIdle
    /\ InitServicesIdle

SpecRetry == InitRetry /\ [][WrapperNext]_vars

\* ------------------------------------------------------- runAutonomousAgent

\* What the external router may answer: one of the eight actions, or a
\* value the switch does not know (handled by "default").
RouterActions ==
    {"SEARCH", "DEEP_SEARCH", "THINK", "IMAGE", "CANVAS", "PROJECT", "STUDY", "SIMPLE", "OTHER"}
\* The router's answers: any action without parameters, and IMAGE with an
\* explicit image prompt (the one handler that reads routing.parameters).
RouterAnswers ==
    {[action |-> a, parameters |-> NoParam] : a \in RouterActions}
    \cup {[action |-> "IMAGE", parameters |-> [has |-> TRUE, prompt |-> <<"a cat">>]]}

Pair(k) == <<OpenTag(k), "q", CloseTag(k)>>

\* The chunks the model may produce for the SIMPLE handler.
SimpleChunks ==
    {Chunk(t, FALSE, <<>>) :
        t \in { <<"x">>, <<OpenTag("THINK")>>,
                <<OpenTag("THINK"), SP, "q", SP, CloseTag("THINK")>> }
              \cup {Pair(k) : k \in {"DEEP", "PROJECT", "CANVAS", "STUDY"}} }
    \cup { Chunk(Pair("SEARCH"), TRUE, <<"g1">>), Chunk(Pair("IMAGE"), TRUE, <<"g2", "g1">>),
           Chunk(<<>>, TRUE, <<"g3">>) }

\* The chunks of a grounded search stream.
SearchChunks ==
    { Chunk(<<"x">>, TRUE, <<"g1">>), Chunk(<<>>, TRUE, <<"g2", "g1">>),
      Chunk(<<"y">>, FALSE, <<>>) }

\* The chunks of a THINK or STUDY stream (grounding, if any, is not read).
PlainChunks ==
    { Chunk(<<"x">>, FALSE, <<>>), Chunk(Pair("SEARCH"), TRUE, <<"g1">>) }

ChunksOf(a) ==
    CASE a = "SEARCH" -> SearchChunks
      [] a \in {"THINK", "STUDY"} -> PlainChunks
      [] OTHER -> SimpleChunks

Status(name) == [kind |-> "status", body |-> <<name>>, secs |-> 0]
TextMsg(t) == [kind |-> "text", body |-> t, secs |-> 0]
\* Mutant: the handler announces the image as a line of plain text.
ImageStartAsText(t) == TextMsg(t)

\* JSON.stringify({ type: 'image_generation_start', text: finalResponseText })
ImageStart(t) == [kind |-> "image_generation_start", body |-> t, secs |-> 0]

\* getUserFriendlyError(error): the message shown for an error.
getUserFriendlyError(e) == <<"friendly message">>

\* { project_id, chat_id, sender: 'ai', text, ...metadataPayload }
NormalResult(text, md) ==
    [kind |-> "normal", project_id |-> ProjectId, chat_id |-> ChatId, sender |-> "ai",
     text |-> text, hasImage |-> FALSE,
     hasGroundingMetadata |-> md.has, groundingMetadata |-> md.groundingMetadata]
\* the same with image_base64
ImageResult(text, md) == [NormalResult(text, md) EXCEPT !.hasImage = TRUE]
\* Mutant: the catch keeps what the turn had accumulated.
ErrorResultKeeping(e) ==
    [kind |-> "error", project_id |-> ProjectId, chat_id |-> ChatId, sender |-> "ai",
     text |-> finalResponseText \o <<"An error occurred: ">> \o getUserFriendlyError(e),
     hasImage |-> FALSE,
     hasGroundingMetadata |-> metadataPayload.has,
     groundingMetadata |-> metadataPayload.groundingMetadata]

\* Mutant: the catch returns the error's message as it is.
ErrorResultBare(e) ==
    [kind |-> "error", project_id |-> ProjectId, chat_id |-> ChatId, sender |-> "ai",
     text |-> getUserFriendlyError(e), hasImage |-> FALSE,
     hasGroundingMetadata |-> FALSE, groundingMetadata |-> <<>>]

\* { project_id, chat_id, sender: 'ai', text: `An error occurred: ${errorMessage}` }
ErrorResult(e) ==
    [kind |-> "error", project_id |-> ProjectId, chat_id |-> ChatId, sender |-> "ai",
     text |-> <<"An error occurred: ">> \o getUserFriendlyError(e), hasImage |-> FALSE,
     hasGroundingMetadata |-> FALSE, groundingMetadata |-> <<>>]

\* return { messages: [r] }
Return(r) ==
    /\ pc' = "done"
    /\ result' = r
    /\ returns' = returns + 1
    /\ UNCHANGED raised

\* Mutant: no top-level catch; the error reaches the caller.
RaiseToCaller(e) ==
    /\ pc' = "done"
    /\ raised' = TRUE
    /\ UNCHANGED <<result, returns>>

\* An error thrown inside the try block: the catch returns the degraded result.
Throw(e) == Return(ErrorResult(e))

\* Mutant: records already in the list are not added again.
PushGroundingDedup(md, g) ==
    [has |-> TRUE,
     groundingMetadata |->
        md.groundingMetadata
        \o SelectSeq(g, LAMBDA r : \A i \in DOMAIN md.groundingMetadata :
                                     md.groundingMetadata[i] # r)]

\* metadataPayload.groundingMetadata.push(...groundingChunks), the array being
\* created first if it is missing
PushGrounding(md, g) ==
    [has |-> TRUE, groundingMetadata |-> md.groundingMetadata \o g]

\* Mutant: the canvas text is appended to the accumulated text.
CanvasTextAppended(prev, t) == prev \o t

\* finalResponseText = canvasMessage.text || ""
CanvasText(prev, t) == t

\* runAutonomousAgent(input) is called and runs up to
\* await router.route(prompt, user.id, apiKey, fileCount): the router is
\* called
runAutonomousAgent ==
    /\ pc = "start"
    /\ calls' = Append(calls, "router.route")
    /\ pc' = "routing"
    /\ UNCHANGED <<wrapperVars, sink, agentVars>>
    /\ UNCHANGED <<displayVars, serviceVars, history, contents>>

\* The router answers: routing is assigned and memory.getContext([...]) is
\* called; or the router fails.
Route ==
    /\ pc = "routing"
    /\ \/ /\ \E routing \in RouterAnswers :
               /\ currentAction' = routing.action
               /\ routingParam' = routing.parameters
          /\ calls' = Append(calls, "memory.getContext")
          /\ pc' = "routed"
          /\ UNCHANGED <<result, returns, raised>>
       \/ /\ \E e \in CollabErrors : Throw(e)
          /\ UNCHANGED <<currentAction, routingParam, calls>>
    /\ UNCHANGED <<wrapperVars, sink, loopCount, currentPrompt, finalResponseText,
                   generatedThisLoop, metadataPayload, nchunks, chunk,
                   thinkingCount>>
    /\ UNCHANGED <<displayVars, serviceVars, history, contents>>

\* Mutant: the loop is entered again at the call of the router.
WhileLoopFromRouter == "start"

\* Where  while (loopCount < MAX_LOOPS)  stands: the position taken once
\* the context is gathered, and again by  continue.
WhileLoop == "loop"

\* memory.getContext answers: formatTimestamp() is called and the loop's
\* variables are set up; or the store fails.
GetContext ==
    /\ pc = "routed"
    /\ \/ /\ pc' = WhileLoop
          /\ calls' = Append(calls, "formatTimestamp")
          /\ UNCHANGED <<result, returns, raised>>
       \/ /\ \E e \in CollabErrors : Throw(e)
          /\ UNCHANGED calls
    /\ UNCHANGED <<wrapperVars, sink, loopCount, currentAction, currentPrompt, routingParam,
                   finalResponseText, generatedThisLoop, metadataPayload, nchunks,
                   chunk, thinkingCount>>
    /\ UNCHANGED <<displayVars, serviceVars, history, contents>>

\* Mutant: the switch has no case 'THINK', which falls to the default.
CaseOfNoThink(a) ==
    IF a \in {"SEARCH", "DEEP_SEARCH", "IMAGE", "CANVAS", "PROJECT", "STUDY"}
    THEN a ELSE "SIMPLE"

\* switch (currentAction): the case an action value selects
CaseOf(a) ==
    IF a \in {"SEARCH", "DEEP_SEARCH", "THINK", "IMAGE", "CANVAS", "PROJECT", "STUDY"}
    THEN a ELSE "SIMPLE"

\* while (loopCount < MAX_LOOPS) { loopCount++; switch (currentAction) ... }
\* and, once the loop is left, the return placed after it
LoopHead ==
    /\ pc = "loop"
    /\ IF loopCount < MAX_LOOPS
       THEN /\ loopCount' = loopCount + 1
            /\ pc' = CaseOf(currentAction)
            /\ UNCHANGED <<result, returns, raised>>
       ELSE /\ Return(NormalResult(finalResponseText, metadataPayload))
            /\ UNCHANGED loopCount
    /\ UNCHANGED <<wrapperVars, sink, currentAction, currentPrompt, routingParam,
                   finalResponseText, generatedThisLoop, metadataPayload, nchunks,
                   chunk, thinkingCount>>
    /\ UNCHANGED <<displayVars, serviceVars, turnVars>>

\* case 'SEARCH', up to the call of the retrying client
SearchBegin ==
    /\ pc = "SEARCH"
    /\ sink' = Append(sink, Status("Searching the web..."))
    /\ EnterWrapper(DefaultRetries, TRUE)
    /\ pc' = "opening"
    /\ UNCHANGED agentVars
    /\ UNCHANGED <<displayVars, serviceVars, turnVars>>

\* Mutant: incrementThinkingCount lets the failure of its remote call out.
SwallowedNever(e) == FALSE

\* incrementThinkingCount: try { await supabase.rpc(...) } catch (e) {
\* console.warn(...) }: whether the failure e of the remote call stays inside
Swallowed(e) == TRUE

\* case 'THINK', up to  await incrementThinkingCount(supabase, user.id):
\* the status line is delivered, the counter is called
ThinkBegin ==
    /\ pc = "THINK"
    /\ sink' = Append(sink, Status("Thinking deeply..."))
    /\ calls' = Append(calls, "incrementThinkingCount")
    /\ pc' = "counting"
    /\ UNCHANGED <<wrapperVars, agentVars>>
    /\ UNCHANGED <<displayVars, serviceVars, history, contents>>

\* The counter's remote call has settled (it may have failed): the history
\* as it is now is mapped, the contents are built, the retrying client is
\* called
ThinkCounted ==
    /\ pc = "counting"
    /\ \/ /\ thinkingCount' = thinkingCount + 1
          /\ contents' = ContentsFor(history, currentPrompt)
          /\ EnterWrapper(DefaultRetries, TRUE)
          /\ pc' = "opening"
          /\ UNCHANGED <<result, returns, raised>>
       \/ \E e \in CollabErrors :
            /\ UNCHANGED thinkingCount
            /\ IF Swallowed(e)
               THEN /\ contents' = ContentsFor(history, currentPrompt)
                    /\ EnterWrapper(DefaultRetries, TRUE)
                    /\ pc' = "opening"
                    /\ UNCHANGED <<result, returns, raised>>
               ELSE /\ Throw(e)
                    /\ UNCHANGED <<wrapperVars, contents>>
    /\ UNCHANGED <<sink, loopCount, currentAction, currentPrompt, routingParam,
                   finalResponseText, generatedThisLoop, metadataPayload, nchunks,
                   chunk>>
    /\ UNCHANGED <<displayVars, serviceVars, calls, history>>

\* case 'STUDY', up to the call of the retrying client
StudyBegin ==
    /\ pc = "STUDY"
    /\ sink' = Append(sink, Status("Creating study plan..."))
    /\ EnterWrapper(DefaultRetries, TRUE)
    /\ pc' = "opening"
    /\ UNCHANGED agentVars
    /\ UNCHANGED <<displayVars, serviceVars, turnVars>>

\* case 'SIMPLE' / default, up to the call of the retrying client: the
\* attached files are read, which may fail
SimpleBegin ==
    /\ pc = "SIMPLE"
    /\ \/ /\ contents' = ContentsFor(history, currentPrompt)
          /\ EnterWrapper(DefaultRetries, TRUE)
          /\ pc' = "opening"
          /\ UNCHANGED <<result, returns, raised>>
       \/ /\ \E e \in CollabErrors : Throw(e)
          /\ UNCHANGED <<wrapperVars, contents>>
    /\ UNCHANGED <<sink, loopCount, currentAction, currentPrompt, routingParam,
                   finalResponseText, generatedThisLoop, metadataPayload, nchunks,
                   chunk, thinkingCount>>
    /\ UNCHANGED <<displayVars, serviceVars, calls, history>>

\* The retrying client returned the stream: the for-await loop starts
\* (in SIMPLE, after  let generatedThisLoop = "").
StreamOpened ==
    /\ pc = "opening"
    /\ rpc = "returned"
    /\ rpc' = "idle"
    /\ pc' = "streaming"
    /\ nchunks' = 0
    /\ generatedThisLoop' =
         IF CaseOf(currentAction) = "SIMPLE" THEN <<>> ELSE generatedThisLoop
    /\ LeaveWrapper
    /\ UNCHANGED <<retries, hasOnRetry, inFlight, sink,
                   loopCount, currentAction, currentPrompt, routingParam,
                   finalResponseText, metadataPayload, chunk, thinkingCount, result,
                   returns, raised>>
    /\ UNCHANGED <<displayVars, serviceVars, turnVars>>

\* The retrying client threw: the error reaches the top-level catch.
OpenFailed ==
    /\ pc = "opening"
    /\ rpc = "threw"
    /\ rpc' = "idle"
    /\ Throw(rerr)
    /\ LeaveWrapper
    /\ UNCHANGED <<retries, hasOnRetry, inFlight, sink,
                   loopCount, currentAction, currentPrompt, routingParam,
                   finalResponseText, generatedThisLoop, metadataPayload, nchunks,
                   chunk, thinkingCount>>
    /\ UNCHANGED <<displayVars, serviceVars, turnVars>>

\* Mutant: the chunk's text replaces the accumulated text.
OverwriteText(prev, t) == t

\* finalResponseText += chunk.text
AppendText(prev, t) == prev \o t

\* Mutant: SIMPLE reads a chunk's citations as SEARCH does, text or not.
ReadsGroundingAlike(a, c) == a \in {"SEARCH", "SIMPLE"} /\ c.hasGrounding

\* Whether the handler of action a reads the grounding chunks of chunk c:
\* SEARCH tests them after its  if (chunk.text)  block, SIMPLE inside it,
\* THINK and STUDY never.
ReadsGrounding(a, c) ==
    \/ a = "SEARCH" /\ c.hasGrounding
    \/ a = "SIMPLE" /\ c.text # <<>> /\ c.hasGrounding

\* Mutant: the sink is given the chunk's text ahead of what it already heard.
DeliverFirst(heard, t) == <<TextMsg(t)>> \o heard

\* onStreamChunk?.(chunk.text): the sink hears t after what it already heard
Deliver(heard, t) == Append(heard, TextMsg(t))

\* One pass of the body of  for await (const chunk of response)  in the
\* handler of action a.
ConsumeChunk(a, c) ==
    /\ chunk' = c
    /\ finalResponseText' =
         IF c.text # <<>> THEN AppendText(finalResponseText, c.text) ELSE finalResponseText
    /\ sink' = IF c.text # <<>> THEN Deliver(sink, c.text) ELSE sink
    /\ generatedThisLoop' =
         IF a = "SIMPLE" /\ c.text # <<>> THEN generatedThisLoop \o c.text
         ELSE generatedThisLoop
    /\ metadataPayload' =
         IF ReadsGrounding(a, c)
         THEN PushGrounding(metadataPayload, c.grounding)
         ELSE metadataPayload

\* The stream yields a chunk.
StreamChunk ==
    /\ pc = "streaming"
    /\ nchunks < MaxChunks
    /\ nchunks' = nchunks + 1
    /\ \E c \in ChunksOf(CaseOf(currentAction)) : ConsumeChunk(CaseOf(currentAction), c)
    /\ UNCHANGED <<pc, wrapperVars, loopCount, currentAction, currentPrompt, routingParam,
                   thinkingCount, result, returns, raised>>
    /\ UNCHANGED <<displayVars, serviceVars, turnVars>>

\* Mutant: a quota-class failure of the open stream sends the handler back
\* to the retrying client.
StreamFailureRetried(e) ==
    IF isQuotaError(e)
    THEN /\ pc' = "opening"
         /\ UNCHANGED <<result, returns, raised>>
    ELSE Throw(e)

\* for await (const chunk of response)  throws e: nothing in the handler
\* catches it, it reaches the top-level catch
StreamFailure(e) == Throw(e)

\* The stream breaks while it is iterated.
StreamFails ==
    /\ pc = "streaming"
    /\ \E e \in CollabErrors : StreamFailure(e)
    /\ chunk' = NoChunk
    /\ UNCHANGED <<wrapperVars, sink, loopCount, currentAction, currentPrompt, routingParam,
                   finalResponseText, generatedThisLoop, metadataPayload, nchunks,
                   thinkingCount>>
    /\ UNCHANGED <<displayVars, serviceVars, turnVars>>

\* Mutant: every streaming handler ends with the redirect detection.
RedirectingAlways(a) == TRUE

\* Whether the handler of action a ends with the redirect detection: only
\* case 'SIMPLE' / default holds the chain of marker tests.
Redirecting(a) == CaseOf(a) = "SIMPLE"

\* The stream of SEARCH, THINK or STUDY ends: the handler returns.
StreamEnds ==
    /\ pc = "streaming"
    /\ ~Redirecting(currentAction)
    /\ Return(NormalResult(finalResponseText, metadataPayload))
    /\ chunk' = NoChunk
    /\ UNCHANGED <<wrapperVars, sink, loopCount, currentAction, currentPrompt, routingParam,
                   finalResponseText, generatedThisLoop, metadataPayload, nchunks,
                   thinkingCount>>
    /\ UNCHANGED <<displayVars, serviceVars, turnVars>>

\* The stream of SIMPLE ends: redirect detection, then  continue  or return.
SimpleEnds ==
    /\ pc = "streaming"
    /\ Redirecting(currentAction)
    /\ LET d == DetectRedirect(generatedThisLoop, TopPrompt)
       IN IF d.redirect
          THEN /\ currentAction' = d.action
               /\ currentPrompt' = d.prompt
               /\ routingParam' = IF d.setParam THEN [has |-> TRUE, prompt |-> d.prompt]
                                  ELSE routingParam
               /\ pc' = WhileLoop
               /\ UNCHANGED <<result, returns, raised>>
          ELSE /\ Return(NormalResult(finalResponseText, metadataPayload))
               /\ UNCHANGED <<currentAction, currentPrompt, routingParam>>
    /\ chunk' = NoChunk
    /\ UNCHANGED <<wrapperVars, sink, loopCount, finalResponseText, generatedThisLoop,
                   metadataPayload, nchunks, thinkingCount>>
    /\ UNCHANGED <<displayVars, serviceVars, turnVars>>

\* msg => onStreamChunk?.(`\n*${msg}*`)
ProgressNote == TextMsg(<<"\n*", "step", "*">>)

\* How many progress notes the sink has heard.
ProgressNotes == Len(SelectSeq(sink, LAMBDA m : m = ProgressNote))

\* case 'DEEP_SEARCH', up to  await researchService.deepResearch(...): the
\* status line is delivered, the research collaborator is called
DeepSearchBegin ==
    /\ pc = "DEEP_SEARCH"
    /\ sink' = Append(sink, Status("Deep Researching..."))
    /\ calls' = Append(calls, "researchService.deepResearch")
    /\ pc' = "researching"
    /\ UNCHANGED <<wrapperVars, agentVars>>
    /\ UNCHANGED <<displayVars, serviceVars, history, contents>>

\* The research collaborator reports progress while it is awaited.
DeepSearchProgress ==
    /\ pc = "researching"
    /\ ProgressNotes < MaxProgress
    /\ sink' = Append(sink, ProgressNote)
    /\ UNCHANGED <<pc, wrapperVars, agentVars>>
    /\ UNCHANGED <<displayVars, serviceVars, turnVars>>

\* The research collaborator answers or fails.
DeepSearchEnds ==
    /\ pc = "researching"
    /\ LET researchText == <<"answer", "\n\n**Sources:**\n", "source">>
       IN \/ /\ finalResponseText' = finalResponseText \o <<"\n\n">> \o researchText
             /\ sink' = Append(sink, TextMsg(researchText))
             /\ Return(NormalResult(finalResponseText', metadataPayload))
          \/ /\ \E e \in CollabErrors : Throw(e)
             /\ UNCHANGED <<finalResponseText, sink>>
    /\ UNCHANGED <<wrapperVars, loopCount, currentAction, currentPrompt, routingParam,
                   generatedThisLoop, metadataPayload, nchunks, chunk,
                   thinkingCount>>
    /\ UNCHANGED <<displayVars, serviceVars, turnVars>>

\* case 'IMAGE', up to  await generateImage(...): the marker is delivered,
\* the image generator is called
ImageBegin ==
    /\ pc = "IMAGE"
    /\ sink' = Append(sink, ImageStart(finalResponseText))
    /\ calls' = Append(calls, "generateImage")
    /\ pc' = "imaging"
    /\ UNCHANGED <<wrapperVars, agentVars>>
    /\ UNCHANGED <<displayVars, serviceVars, history, contents>>

\* Mutant: the note never names the error's message.
ImageFailureNoteUnknown(e) ==
    <<"\n\n(Image generation failed: ", "Unknown error", ")">>

\* `\n\n(Image generation failed: ${e instanceof Error ? e.message : 'Unknown error'})`
ImageFailureNote(e) ==
    <<"\n\n(Image generation failed: ">>
    \o (IF e.isError
        THEN (IF e.hasMessage THEN e.message ELSE <<"undefined">>)
        ELSE <<"Unknown error">>)
    \o <<")">>

\* generateImage answers or fails; the failure is caught in the handler
ImageEnds ==
    /\ pc = "imaging"
    /\ \/ /\ Return(ImageResult(finalResponseText, metadataPayload))
          /\ UNCHANGED <<finalResponseText, sink>>
          /\ UNCHANGED caught
       \/ \E e \in CollabErrors :
            /\ caught' = e
            /\ finalResponseText' = finalResponseText \o ImageFailureNote(e)
            /\ sink' = Append(sink, TextMsg(ImageFailureNote(e)))
            /\ Return(NormalResult(finalResponseText', metadataPayload))
    /\ UNCHANGED <<rpc, retries, hasOnRetry, attempt, rerr, inFlight, rtrace, loopCount, currentAction, currentPrompt, routingParam,
                   generatedThisLoop, metadataPayload, nchunks, chunk,
                   thinkingCount>>
    /\ UNCHANGED <<displayVars, serviceVars, turnVars>>

\* What runCanvasAgent may answer: no message, a message without text, or a
\* message with a text.
CanvasAnswers ==
    { [messages |-> 0, text |-> <<>>], [messages |-> 1, text |-> <<>>],
      [messages |-> 1, text |-> <<"canvas code">>] }

\* case 'CANVAS', up to  await runCanvasAgent({ ...input, prompt }): the
\* canvas collaborator is called
CanvasBegin ==
    /\ pc = "CANVAS"
    /\ calls' = Append(calls, "runCanvasAgent")
    /\ pc' = "drawing"
    /\ UNCHANGED <<wrapperVars, sink, agentVars>>
    /\ UNCHANGED <<displayVars, serviceVars, history, contents>>

\* What the canvas collaborator hands to the sink it is given with the input.
CanvasNote == TextMsg(<<"canvas chunk">>)

\* How many of them the sink has heard.
CanvasNotes == Cardinality({i \in DOMAIN sink : sink[i] = CanvasNote})

\* The canvas collaborator, which has input.onStreamChunk, streams a chunk.
CanvasStreams ==
    /\ pc = "drawing"
    /\ CanvasNotes < MaxProgress
    /\ sink' = Append(sink, CanvasNote)
    /\ UNCHANGED <<pc, wrapperVars, agentVars>>
    /\ UNCHANGED <<displayVars, serviceVars, turnVars>>

\* The canvas collaborator answers or fails; reading the text of a first
\* message that is not there throws
CanvasEnds ==
    /\ pc = "drawing"
    /\ \/ \E r \in CanvasAnswers :
            IF r.messages = 0
            THEN /\ Throw(Err(Undefined, TRUE, <<"T", "y", "p", "e", "E", "r", "r", "o", "r">>))
                 /\ UNCHANGED finalResponseText
            ELSE /\ finalResponseText' = CanvasText(finalResponseText, r.text)
                 /\ Return(NormalResult(finalResponseText', metadataPayload))
       \/ /\ \E e \in CollabErrors : Throw(e)
          /\ UNCHANGED finalResponseText
    /\ UNCHANGED <<wrapperVars, sink, loopCount, currentAction, currentPrompt, routingParam,
                   generatedThisLoop, metadataPayload, nchunks, chunk,
                   thinkingCount>>
    /\ UNCHANGED <<displayVars, serviceVars, turnVars>>

\* Mutant: a quota-class failure of the call has the handler call again.
ProjectFailureRetried(e) ==
    IF isQuotaError(e)
    THEN /\ pc' = "PROJECT"
         /\ UNCHANGED <<result, returns, raised>>
    ELSE Throw(e)

\* await ai.models.generateContent(...)  throws e: the call stands in no
\* retry loop and in no try block of the handler, e reaches the top-level
\* catch
ProjectFailure(e) == Throw(e)

\* case 'PROJECT', up to  await ai.models.generateContent(...): the status
\* line is delivered, the one-shot call is made (once, never retried)
ProjectBegin ==
    /\ pc = "PROJECT"
    /\ sink' = Append(sink, Status("Building project structure..."))
    /\ calls' = Append(calls, "ai.models.generateContent")
    /\ pc' = "building"
    /\ UNCHANGED <<wrapperVars, agentVars>>
    /\ UNCHANGED <<displayVars, serviceVars, history, contents>>

\* The one-shot call answers or fails.
ProjectEnds ==
    /\ pc = "building"
    /\ LET projectMsg == <<"\nI've designed the project structure based on your request.\n\n",
                           "{json}",
                           "\n\n(Switch to Co-Creator mode to fully hydrate and edit these files.)">>
       IN \/ /\ finalResponseText' = finalResponseText \o projectMsg
             /\ sink' = Append(sink, TextMsg(projectMsg))
             /\ Return(NormalResult(finalResponseText', metadataPayload))
          \/ /\ \E e \in CollabErrors : ProjectFailure(e)
             /\ UNCHANGED <<finalResponseText, sink>>
    /\ UNCHANGED <<wrapperVars, loopCount, currentAction, currentPrompt, routingParam,
                   generatedThisLoop, metadataPayload, nchunks, chunk,
                   thinkingCount>>
    /\ UNCHANGED <<displayVars, serviceVars, turnVars>>

AgentNext ==
    \/ runAutonomousAgent \/ Route \/ GetContext \/ LoopHead
    \/ SearchBegin \/ ThinkBegin \/ ThinkCounted \/ StudyBegin \/ SimpleBegin
    \/ StreamOpened \/ OpenFailed \/ StreamChunk \/ StreamFails \/ StreamEnds \/ SimpleEnds
    \/ DeepSearchBegin \/ DeepSearchProgress \/ DeepSearchEnds
    \/ ImageBegin \/ ImageEnds
    \/ CanvasBegin \/ CanvasStreams \/ CanvasEnds \/ ProjectBegin \/ ProjectEnds

Init ==
    /\ pc = "start"
    /\ rpc = "idle"
    /\ retries = DefaultRetries
    /\ hasOnRetry = TRUE
    /\ attempt = 0
    /\ caught = NoError
    /\ rerr = NoError
    /\ inFlight = 0
    /\ rtrace = <<>>
    /\ sink = <<>>
    /\ InitAgentVars
    /\ InitDisplayIdle
    /\ InitServicesIdle

Next == AgentNext \/ WrapperNext

Spec == Init /\ [][Next]_vars

\* The turn under the scheduling the runtime gives it: every awaited call
\* settles and its continuation runs, every timer fires, every stream is
\* read to its end; a step that can be taken is taken.
FairSpec == Spec /\ WF_vars(Next)

\* ------------------------------------------- redirect detection on its own

\* The pieces a text handed to redirect detection is made of: the single
\* tokens (the tags of three kinds, the lower-case SEARCH tag, the word
\* "deep", white space, a word), every marker with a one-word payload, and
\* the opening of a SEARCH marker whose payload starts with "deep ".
Tokens ==
    {OpenTag(k) : k \in {"SEARCH", "THINK", "IMAGE"}}
    \cup {CloseTag(k) : k \in {"SEARCH", "THINK", "IMAGE"}}
    \cup {OpenSearchLower, "deep", SP, NL, "q"}
DeepOpen == <<OpenTag("SEARCH"), "deep", SP>>
Segments == {<<tok>> : tok \in Tokens} \cup {Pair(k) : k \in Kinds} \cup {DeepOpen}
Texts == {Flatten(ss) : ss \in UNION {[1..n -> Segments] : n \in 0..MaxSegs}}

\* The SIMPLE handler in the first iteration, its stream having delivered
\* some text in one chunk and ended.
InitDetect ==
    /\ pc = "streaming"
    /\ rpc = "idle"
    /\ retries = DefaultRetries
    /\ hasOnRetry = TRUE
    /\ attempt = 0
    /\ caught = NoError
    /\ rerr = NoError
    /\ inFlight = 0
    /\ rtrace = <<>>
    /\ loopCount = 1
    /\ currentAction = "SIMPLE"
    /\ currentPrompt = TopPrompt
    /\ routingParam = NoParam
    /\ \E t \in Texts :
         /\ generatedThisLoop = t
         /\ finalResponseText = t
         /\ sink = IF t = <<>> THEN <<>> ELSE <<TextMsg(t)>>
         /\ chunk = Chunk(t, FALSE, <<>>)
    /\ metadataPayload = NoMetadata
    /\ nchunks = 1
    /\ thinkingCount = 0
    /\ result = NoResult
    /\ returns = 0
    /\ raised = FALSE
    /\ calls = <<"router.route", "memory.getContext", "formatTimestamp">>
    /\ history = ChatHistory
    /\ contents = ContentsFor(ChatHistory, TopPrompt)
    /\ InitDisplayIdle
    /\ InitServicesIdle

SpecDetect == InitDetect /\ [][SimpleEnds \/ LoopHead]_vars

\* ------------------------------------------------ parseMessageContent
\* (src/components/chat/ChatMessage.tsx).  Here a text is the sequence of its
\* characters.

Letters == <<"a", "b", "c", "d", "e", "f", "g", "h", "i", "j", "k", "l", "m",
             "n", "o", "p", "q", "r", "s", "t", "u", "v", "w", "x", "y", "z">>
Capitals == <<"A", "B", "C", "D", "E", "F", "G", "H", "I", "J", "K", "L", "M",
              "N", "O", "P", "Q", "R", "S", "T", "U", "V", "W", "X", "Y", "Z">>
Digits == <<"0", "1", "2", "3", "4", "5", "6", "7", "8", "9">>
Range(s) == {s[i] : i \in DOMAIN s}

\* The i flag: characters are compared with their case folded.
FoldCase(c) ==
    IF c \in Range(Letters) THEN Capitals[CHOOSE i \in DOMAIN Letters : Letters[i] = c] ELSE c

\* \w
IsWordChar(c) == c \in Range(Letters) \cup Range(Capitals) \cup Range(Digits) \cup {"_"}

\* The names of the markers parseMessageContent knows.
MarkerName(k) ==
    CASE k = "THINK" -> <<"T", "H", "I", "N", "K">>
      [] k = "CANVAS" -> <<"C", "A", "N", "V", "A", "S">>
      [] k = "MEMORY" -> <<"M", "E", "M", "O", "R", "Y">>
      [] k = "IMAGE" -> <<"I", "M", "A", "G", "E">>
      [] k = "SEARCH" -> <<"S", "E", "A", "R", "C", "H">>
      [] k = "PROJECT" -> <<"P", "R", "O", "J", "E", "C", "T">>
      [] k = "STUDY" -> <<"S", "T", "U", "D", "Y">>
      [] k = "DEEP" -> <<"D", "E", "E", "P">>
\* <K> and </K>, character by character
OpenChars(k) == <<"<">> \o MarkerName(k) \o <<">">>
CloseChars(k) == <<"<", "/">> \o MarkerName(k) \o <<">">>

\* Whether the literal lit stands at position i of s, case folded.
LiteralAt(s, i, lit) ==
    /\ i >= 1
    /\ i + Len(lit) - 1 <= Len(s)
    /\ \A j \in DOMAIN lit : FoldCase(s[i + j - 1]) = FoldCase(lit[j])

\* The first position from `from` on where lit stands in s, 0 if there is
\* none.
IndexOf(s, lit, from) ==
    LET is == {i \in from..Len(s) : LiteralAt(s, i, lit)}
    IN IF is = {} THEN 0 ELSE Min(is)

\* m = content.match(/<K>([\s\S]*?)(?:<\/K>|$)/i);  m ? m[1].trim() : null
Block(s, k) ==
    LET i == IndexOf(s, OpenChars(k), 1)
        b == i + Len(OpenChars(k))
        j == IndexOf(s, CloseChars(k), b)
    IN IF i = 0 THEN Null
       ELSE Str(Trim(SubSeq(s, b, IF j = 0 THEN Len(s) ELSE j - 1)))

\* The end of the run of word characters that starts at position i (i - 1
\* if position i holds none).
RECURSIVE WordRunEnd(_, _)
WordRunEnd(s, i) ==
    IF i <= Len(s) /\ IsWordChar(s[i]) THEN WordRunEnd(s, i + 1) ELSE i - 1

\* The backquote character (U+0060), named here because a string of this
\* language cannot hold it, and the three backquotes of a code fence.
Backquote == "(backquote)"
Fence == <<Backquote, Backquote, Backquote>>

\* canvas.replace(/^FENCE\w*\n?/, "")
StripOpeningFence(s) ==
    IF ~LiteralAt(s, 1, Fence) THEN s
    ELSE LET w == WordRunEnd(s, Len(Fence) + 1)
             e == IF w + 1 <= Len(s) /\ s[w + 1] = NL THEN w + 1 ELSE w
         IN SubSeq(s, e + 1, Len(s))

\* .replace(/FENCE$/, "")
StripClosingFence(s) ==
    IF LiteralAt(s, Len(s) - Len(Fence) + 1, Fence)
    THEN SubSeq(s, 1, Len(s) - Len(Fence)) ELSE s

\* if (canvas) { canvas = canvas.replace(...).replace(...).trim(); }
CleanCanvas(c) ==
    IF c.isNull \/ c.text = <<>> THEN c
    ELSE Str(Trim(StripClosingFence(StripOpeningFence(c.text))))

\* s.replace(/<K>[\s\S]*?<\/K>/gi, ''): every match, found from left to right
\* in s past the match before it, is taken out.
RECURSIVE RemovePaired(_, _)
RemovePaired(s, k) ==
    LET i == IndexOf(s, OpenChars(k), 1)
        j == IndexOf(s, CloseChars(k), i + Len(OpenChars(k)))
    IN IF i = 0 \/ j = 0 THEN s
       ELSE SubSeq(s, 1, i - 1)
            \o RemovePaired(SubSeq(s, j + Len(CloseChars(k)), Len(s)), k)

\* s.replace(/<K>[\s\S]*/gi, '')
RemoveOpenEnded(s, k) ==
    LET i == IndexOf(s, OpenChars(k), 1)
    IN IF i = 0 THEN s ELSE SubSeq(s, 1, i - 1)

\* The kinds whose paired blocks only are removed, in the order of the chain
\* of replace calls.
PairedOnlyKinds == <<"MEMORY", "IMAGE", "SEARCH", "PROJECT", "STUDY", "DEEP">>

\* The replace calls for the first n kinds of PairedOnlyKinds.
RECURSIVE RemovePairedKinds(_, _)
RemovePairedKinds(s, n) ==
    IF n = 0 THEN s
    ELSE RemovePaired(RemovePairedKinds(s, n - 1), PairedOnlyKinds[n])

\* let clean = content.replace(...) ... .trim()
Clean(raw) ==
    LET think == RemoveOpenEnded(RemovePaired(raw, "THINK"), "THINK")
        canvas == RemoveOpenEnded(RemovePaired(think, "CANVAS"), "CANVAS")
    IN Trim(RemovePairedKinds(canvas, Len(PairedOnlyKinds)))

parseMessageContent(raw) ==
    IF raw = <<>> THEN [thinking |-> Null, canvas |-> Null, clean |-> <<>>]
    ELSE [thinking |-> Block(raw, "THINK"),
          canvas |-> CleanCanvas(Block(raw, "CANVAS")),
          clean |-> Clean(raw)]

\* The message text is parsed for display.
ParseContent ==
    /\ pc = "display"
    /\ shown = NotParsed
    /\ shown' = parseMessageContent(content)
    /\ UNCHANGED <<content, reshown, pc, sink, wrapperVars, agentVars, turnVars, serviceVars>>

\* The clean text is parsed again.
ParseClean ==
    /\ pc = "display"
    /\ shown # NotParsed
    /\ reshown = NotParsed
    /\ reshown' = parseMessageContent(shown.clean)
    /\ UNCHANGED <<content, shown, pc, sink, wrapperVars, agentVars, turnVars, serviceVars>>

\* The pieces a displayed text is made of: markers in both letter cases,
\* the halves of a marker split in two, a marker with a one-letter payload,
\* a canvas opening inside a thinking block, a code fence, white space, a
\* letter.
Pieces ==
    { OpenChars("THINK"), CloseChars("THINK"), <<"<", "t", "h", "i", "n", "k", ">">>,
      OpenChars("CANVAS"), CloseChars("CANVAS"),
      OpenChars("THINK") \o OpenChars("CANVAS"),
      OpenChars("IMAGE"), CloseChars("IMAGE"),
      OpenChars("IMAGE") \o <<"q">> \o CloseChars("IMAGE"),
      <<"<", "T", "H">>, <<"I", "N", "K", ">">>,
      Fence, <<SP>>, <<NL>>, <<"q">> }
Contents == {Flatten(ps) : ps \in UNION {[1..n -> Pieces] : n \in 0..MaxPieces}}

InitDisplay ==
    /\ pc = "display"
    /\ rpc = "idle"
    /\ retries = DefaultRetries
    /\ hasOnRetry = TRUE
    /\ attempt = 0
    /\ caught = NoError
    /\ rerr = NoError
    /\ inFlight = 0
    /\ rtrace = <<>>
    /\ sink = <<>>
    /\ InitAgentVars
    /\ InitServicesIdle
    /\ content \in Contents
    /\ shown = NotParsed
    /\ reshown = NotParsed

SpecDisplay == InitDisplay /\ [][ParseContent \/ ParseClean]_vars

\* ------------------------------------------------------- history mapping

\* Who may have sent an earlier turn, and what its text may be: nothing,
\* white space only, a word, a word inside white space.
Senders == {"user", "ai", "system"}
TurnTexts == {<<>>, <<SP>>, <<"hi">>, <<SP, "yo", NL>>}
Histories ==
    UNION {[1..n -> {Turn(s, t) : s \in Senders, t \in TurnTexts}] : n \in 0..MaxTurns}

\* The THINK or the SIMPLE handler is entered in the first iteration, the
\* turn having been given any history.
InitHistory ==
    /\ pc \in {"THINK", "SIMPLE"}
    /\ currentAction = pc
    /\ rpc = "idle"
    /\ retries = DefaultRetries
    /\ hasOnRetry = TRUE
    /\ attempt = 0
    /\ caught = NoError
    /\ rerr = NoError
    /\ inFlight = 0
    /\ rtrace = <<>>
    /\ sink = <<>>
    /\ loopCount = 1
    /\ currentPrompt = TopPrompt
    /\ routingParam = NoParam
    /\ finalResponseText = <<>>
    /\ generatedThisLoop = <<>>
    /\ metadataPayload = NoMetadata
    /\ nchunks = 0
    /\ chunk = NoChunk
    /\ thinkingCount = 0
    /\ result = NoResult
    /\ returns = 0
    /\ raised = FALSE
    /\ calls = <<"router.route", "memory.getContext", "formatTimestamp">>
    /\ history \in Histories
    /\ contents = NoContents
    /\ InitDisplayIdle
    /\ InitServicesIdle

SpecHistory == InitHistory /\ [][ThinkBegin \/ ThinkCounted \/ SimpleBegin]_vars

\* ------------------------------------------------------ message mapping

\* The rest of the program stands still while a service is exercised.
InitCoreIdle ==
    /\ rpc = "idle"
    /\ retries = DefaultRetries
    /\ hasOnRetry = TRUE
    /\ attempt = 0
    /\ caught = NoError
    /\ rerr = NoError
    /\ inFlight = 0
    /\ rtrace = <<>>
    /\ sink = <<>>
    /\ InitAgentVars
    /\ InitDisplayIdle

\* The values a key of a message holds.
JsUndefined == [t |-> "undefined", v |-> <<>>]
JsNull == [t |-> "null", v |-> <<>>]
JsString(str) == [t |-> "string", v |-> <<str>>]
JsArray(a) == [t |-> "array", v |-> a]
JsTrue == [t |-> "boolean", v |-> <<"true">>]
\* The key is not there.
Absent == [t |-> "absent", v |-> <<>>]

\* What  ||  takes for true: an array is, even an empty one.
Truthy(x) == x.t \notin {"undefined", "null"} /\ x # JsString("")
\* a || b
Or(a, b) == IF Truthy(a) THEN a ELSE b
\* o[k]
Get(o, k) == IF k \in DOMAIN o THEN o[k] ELSE JsUndefined
\* { ...o, k: val }
With(o, k, val) == [x \in DOMAIN o \cup {k} |-> IF x = k THEN val ELSE o[x]]
\* const { ks, ...rest } = o
Without(o, ks) == [x \in DOMAIN o \ ks |-> o[x]]

\* Mutant: the citations are read from the camelCase key only.
mapDbMessageToAppCamelOnly(dbMsg) ==
    With(With(dbMsg, "groundingMetadata", Or(Get(dbMsg, "groundingMetadata"), JsUndefined)),
         "imageStatus", JsUndefined)

\* { ...dbMsg, groundingMetadata: dbMsg.grounding_metadata ||
\*   dbMsg.groundingMetadata || undefined, imageStatus: undefined }
mapDbMessageToApp(dbMsg) ==
    With(With(dbMsg, "groundingMetadata",
              Or(Or(Get(dbMsg, "grounding_metadata"), Get(dbMsg, "groundingMetadata")),
                 JsUndefined)),
         "imageStatus", JsUndefined)

\* const { imageStatus, groundingMetadata, isOptimistic, memoryToCreate,
\* ...rest } = msg;  return { ...rest, grounding_metadata: groundingMetadata }
mapAppMessageToDb(msg) ==
    With(Without(msg, {"imageStatus", "groundingMetadata", "isOptimistic", "memoryToCreate"}),
         "grounding_metadata", Get(msg, "groundingMetadata"))

\* The columns of the messages table the model follows.
MessageColumns == {"id", "chat_id", "sender", "text", "grounding_metadata"}

\* supabase.from('messages').insert(row).select().single(): the stored row,
\* the columns the request left out or undefined being null, the id given
\* by the table.
InsertedRow(row) ==
    [c \in MessageColumns |->
        IF c = "id" THEN JsString("row-1")
        ELSE IF c \in DOMAIN row /\ row[c] # JsUndefined THEN row[c] ELSE JsNull]

\* The arrays of citation records a message may hold.
CitationLists == UNION {[1..n -> {"g1", "g2"}] : n \in 0..MaxCitations}

\* The messages given to addMessage: text and sender, and or not a loader
\* state, citations (no key, undefined, or an array), the UI's and the
\* agents' marks, and the snake_case key a message read from the table
\* still carries.
MessageChoices ==
    [ imageStatus : {Absent, JsString("generating")},
      groundingMetadata : {Absent, JsUndefined} \cup {JsArray(g) : g \in CitationLists},
      isOptimistic : {Absent, JsTrue},
      memoryToCreate : {Absent, JsString("memory")},
      grounding_metadata : {Absent, JsNull, JsArray(<<"g9">>)} ]
MessageOf(c) ==
    LET opt == {k \in DOMAIN c : c[k] # Absent}
    IN [k \in opt \cup {"chat_id", "sender", "text"} |->
          IF k \in opt THEN c[k]
          ELSE IF k = "chat_id" THEN JsString("chat-1")
          ELSE IF k = "sender" THEN JsString("ai")
          ELSE JsString("hello")]
AppMessages == {MessageOf(c) : c \in MessageChoices}

\* addMessage is called with any message.
InitMapping ==
    /\ pc = "addMessage"
    /\ InitCoreIdle
    /\ InitChatIdle
    /\ InitMemoryIdle
    /\ appMessage \in AppMessages
    /\ dbRow = EmptyObject
    /\ roundTrip = EmptyObject

\* const dbMessage = mapAppMessageToDb(message); the insert is sent
WriteRow ==
    /\ pc = "addMessage"
    /\ dbRow' = mapAppMessageToDb(appMessage)
    /\ pc' = "inserting"
    /\ UNCHANGED <<appMessage, roundTrip, sink, wrapperVars, agentVars, displayVars,
                   turnVars, chatVars, memoryVars>>

\* The insert answers: return mapDbMessageToApp(data); or it fails and
\* handleSupabaseError throws.
ReadBack ==
    /\ pc = "inserting"
    /\ \/ /\ roundTrip' = mapDbMessageToApp(InsertedRow(dbRow))
          /\ pc' = "added"
       \/ /\ pc' = "failed"
          /\ UNCHANGED roundTrip
    /\ UNCHANGED <<appMessage, dbRow, sink, wrapperVars, agentVars, displayVars,
                   turnVars, chatVars, memoryVars>>

SpecMapping == InitMapping /\ [][WriteRow \/ ReadBack]_vars

\* ------------------------------------------------- the memories table

\* What saveMemory is called with: one user, the layers, keys and values.
MemoryLayers == {"personal", "project"}
MemoryKeys == {"k1", "k2"}
MemoryValues == {"v1", "v2"}
\* existing is null.
NoRow == 0
\* updates.key and updates.value when they are undefined.
NoKey == "(undefined key)"
NoValue == "(undefined value)"

\* The locals of a call of one of the functions that write the table.
MemoryCall(fn, at, layer, key, value, id) ==
    [fn |-> fn, at |-> at, layer |-> layer, memory_key |-> key, content |-> value,
     existing |-> id, inserted |-> FALSE]

\* The id the table gives the next row: ids are never given twice.
NextMemoryId == 1 + Cardinality({n \in DOMAIN saves : saves[n].inserted})

\* The rows of the memories table of the given user, layer and memory key.
MatchingRows(layer, key) ==
    {i \in DOMAIN memories : memories[i].layer = layer /\ memories[i].memory_key = key}

\* .select('id')...single(): the id of the one matching row; data is null
\* when no row matches and when several do.
SingleRow(layer, key) ==
    IF Cardinality(MatchingRows(layer, key)) = 1
    THEN memories[CHOOSE i \in MatchingRows(layer, key) : TRUE].id
    ELSE NoRow

\* The table has a row of that id: .eq('id', id).select().single() answers
\* with it; without one data is null and error is set.
HasMemory(id) == \E i \in DOMAIN memories : memories[i].id = id

\* The table is empty, saveMemory was not called.
InitMemory ==
    /\ pc = "saveMemory"
    /\ InitCoreIdle
    /\ InitChatIdle
    /\ InitMappingIdle
    /\ memories = <<>>
    /\ saves = <<>>

\* saveMemory(supabase, userId, layer, key, value) is called: the select
\* of the existing row is sent.
SaveMemoryCalled ==
    /\ pc = "saveMemory"
    /\ Len(saves) < MaxSaves
    /\ \E layer \in MemoryLayers, key \in MemoryKeys, value \in MemoryValues :
         saves' = Append(saves, MemoryCall("saveMemory", "checking", layer, key, value,
                                           NoRow))
    /\ UNCHANGED <<memories, pc, sink, wrapperVars, agentVars, displayVars, turnVars,
                   chatVars, mappingVars>>

\* The select answers: existing is the row's id or null; the update or the
\* insert is sent.
SaveMemoryChecked ==
    /\ pc = "saveMemory"
    /\ \E n \in DOMAIN saves :
         /\ saves[n].at = "checking"
         /\ saves' = [saves EXCEPT ![n].existing = SingleRow(saves[n].layer, saves[n].memory_key),
                                   ![n].at = "writing"]
    /\ UNCHANGED <<memories, pc, sink, wrapperVars, agentVars, displayVars, turnVars,
                   chatVars, mappingVars>>

\* if (existing) update(payload).eq('id', existing.id)  else  insert(payload);
\* the call returns the row; if the row to update is gone, data is null and
\* reading data.metadata throws.
SaveMemoryWritten ==
    /\ pc = "saveMemory"
    /\ \E n \in DOMAIN saves :
         /\ saves[n].at = "writing"
         /\ memories' =
              IF saves[n].existing # NoRow
              THEN [i \in DOMAIN memories |->
                      IF memories[i].id = saves[n].existing
                      THEN [memories[i] EXCEPT !.layer = saves[n].layer,
                                               !.memory_key = saves[n].memory_key,
                                               !.content = saves[n].content]
                      ELSE memories[i]]
              ELSE Append(memories, [id |-> NextMemoryId, layer |-> saves[n].layer,
                                     memory_key |-> saves[n].memory_key,
                                     content |-> saves[n].content])
         /\ saves' = [saves EXCEPT
                        ![n].at = IF saves[n].existing = NoRow \/ HasMemory(saves[n].existing)
                                  THEN "returned" ELSE "threw",
                        ![n].inserted = (saves[n].existing = NoRow)]
    /\ UNCHANGED <<pc, sink, wrapperVars, agentVars, displayVars, turnVars,
                   chatVars, mappingVars>>

\* updateMemory(supabase, memoryId, updates): the row of that id gets the
\* content updates.value and, if updates.key is given, the metadata
\* { memory_key: updates.key }; a value that is undefined is not sent.
\* Without a row of that id handleSupabaseError throws.
UpdateMemory ==
    /\ pc = "saveMemory"
    /\ Len(saves) < MaxSaves
    /\ \E id \in 1..MaxSaves, key \in MemoryKeys \cup {NoKey},
          value \in MemoryValues \cup {NoValue} :
         /\ memories' =
              [i \in DOMAIN memories |->
                 IF memories[i].id = id
                 THEN [memories[i] EXCEPT
                         !.content = IF value # NoValue THEN value ELSE @,
                         !.memory_key = IF key # NoKey THEN key ELSE @]
                 ELSE memories[i]]
         /\ saves' = Append(saves, MemoryCall("updateMemory",
                                              IF HasMemory(id) THEN "returned" ELSE "threw",
                                              "", key, value, id))
    /\ UNCHANGED <<pc, sink, wrapperVars, agentVars, displayVars, turnVars,
                   chatVars, mappingVars>>

\* deleteMemory(supabase, memoryId): the row of that id is deleted.
DeleteMemory ==
    /\ pc = "saveMemory"
    /\ Len(saves) < MaxSaves
    /\ \E id \in 1..MaxSaves :
         /\ memories' = SelectSeq(memories, LAMBDA row : row.id # id)
         /\ saves' = Append(saves, MemoryCall("deleteMemory", "returned", "", NoKey,
                                              NoValue, id))
    /\ UNCHANGED <<pc, sink, wrapperVars, agentVars, displayVars, turnVars,
                   chatVars, mappingVars>>

\* deleteUser, step 3: every memory of the user is deleted.
DeleteUserMemories ==
    /\ pc = "saveMemory"
    /\ Len(saves) < MaxSaves
    /\ memories' = <<>>
    /\ saves' = Append(saves, MemoryCall("deleteUser", "returned", "", NoKey, NoValue, NoRow))
    /\ UNCHANGED <<pc, sink, wrapperVars, agentVars, displayVars, turnVars,
                   chatVars, mappingVars>>

SpecMemory ==
    InitMemory /\ [][\/ SaveMemoryCalled \/ SaveMemoryChecked \/ SaveMemoryWritten
                     \/ UpdateMemory \/ DeleteMemory \/ DeleteUserMemories]_vars

\* ---------------------------------------------------------------- useChat

\* The chats of the user.
Chats == {"c1", "c2"}
\* The chat a state that names none uses next.
FirstChat == "c1"
\* The texts the user sends: one with words, one of white space only.
UserText == <<"hi">>
BlankText == <<SP>>
\* !text.trim()
IsBlank(text) == \A i \in DOMAIN text : text[i] \in {SP, NL}

\* JSON.stringify({ type: 'image_generation_start', ... }), the event the
\* agent streams before it draws.
ImageEvent == "{\"type\":\"image_generation_start\"}"
\* What the agent streams, chunk by chunk: a text, the bare event, the event
\* with text around it.
StreamedChunk == <<"x">>
StreamedChunks == { StreamedChunk, <<ImageEvent>>, <<"x", ImageEvent, "x">> }

\* e?.message of what a call of the hook catches: a message, or none.
ThrownMessages == { <<"message">>, <<>> }
\* e?.message || "An unknown error occurred."
ErrorMessage(message) ==
    IF message # <<>> THEN message ELSE <<"An unknown error occurred.">>

\* message.plan and message.imageStatus when nothing set them
NoPlan == Undefined
\* updatedPlan.plan
ThePlan == "plan"

\* A message of the list, or a row of the messages table.
Message(id, chat, sender, text) ==
    [id |-> id, chat_id |-> chat, sender |-> sender, text |-> text,
     imageStatus |-> Undefined, plan |-> NoPlan]
\* `temp-ai-${Date.now()}`, `temp-user-${Date.now()}`, `failed-${Date.now()}`
\* and the ids the table gives
TempAiId(t) == <<"temp-ai-", t>>
TempUserId(t) == <<"temp-user-", t>>
FailedId(t) == <<"failed-", t>>
RowId(n) == <<"row-", n>>
\* id.startsWith('temp-')
IsTemp(id) == id[1] \in {"temp-ai-", "temp-user-"}

\* prev.map(m => m.id === id ? { ...m, text: currentText } : m)
MapText(list, id, text) ==
    [i \in 1..Len(list) |->
        IF list[i].id = id THEN [list[i] EXCEPT !.text = text]
        ELSE list[i]]
\* prev.map(m => m.id === id ? { ...m, imageStatus: 'generating' } : m)
MapGenerating(list, id) ==
    [i \in 1..Len(list) |->
        IF list[i].id = id THEN [list[i] EXCEPT !.imageStatus = "generating"]
        ELSE list[i]]
\* prev.map(m => m.id === id
\*     ? { ...m, text: currentText, imageStatus: undefined } : m)
MapChunk(list, id, text) ==
    [i \in 1..Len(list) |->
        IF list[i].id = id
        THEN [list[i] EXCEPT !.text = text, !.imageStatus = Undefined]
        ELSE list[i]]
\* The two characters the error text starts with: ⚠️
WarningSign == "U+26A0 U+FE0F"
\* prev.map(m => m.id === id
\*     ? { ...m, text: `⚠️ Error: ${errorMessage}`, sender: 'ai' } : m)
MapError(list, id, errorMessage) ==
    [i \in 1..Len(list) |->
        IF list[i].id = id
        THEN [list[i] EXCEPT !.text = <<WarningSign, " Error: ">> \o errorMessage,
                             !.sender = "ai"]
        ELSE list[i]]
\* prev.map(m => m.id === id ? saved : m)
MapSaved(list, id, saved) ==
    [i \in 1..Len(list) |-> IF list[i].id = id THEN saved ELSE list[i]]
\* newMessages.map(m => m.id === messageId ? { ...m, plan } : m)
MapPlan(list, id, plan) ==
    [i \in 1..Len(list) |->
        IF list[i].id = id THEN [list[i] EXCEPT !.plan = plan]
        ELSE list[i]]

\* chunk.includes('image_generation_start') and the expression matches
HasImageEvent(piece) == \E i \in DOMAIN piece : piece[i] = ImageEvent
\* chunk.replace(match[0], ''): the match runs from the first brace to the
\* last one.
TextPart(piece) ==
    LET at == {i \in DOMAIN piece : piece[i] = ImageEvent}
        first == Min(at)
        last == CHOOSE m \in at : \A i \in at : i <= m
    IN SubSeq(piece, 1, first - 1) \o SubSeq(piece, last + 1, Len(piece))

\* currentText after onStreamChunk(chunk)
StreamedText(currentText, piece) ==
    IF HasImageEvent(piece) THEN currentText \o TextPart(piece)
    ELSE currentText \o piece

\* The list after onStreamChunk(chunk).
OnStreamChunk(list, id, currentText, piece) ==
    IF HasImageEvent(piece)
    THEN IF TextPart(piece) # <<>>
         THEN MapText(MapGenerating(list, id), id, StreamedText(currentText, piece))
         ELSE MapGenerating(list, id)
    ELSE MapChunk(list, id, StreamedText(currentText, piece))

\* newMessages.findIndex(m => m.id === id), 0 standing for -1
FindIndex(list, id) ==
    IF \E i \in DOMAIN list : list[i].id = id
    THEN Min({i \in DOMAIN list : list[i].id = id})
    ELSE 0

\* Mutant: the saved messages are put in front of the placeholder, which
\* stays.
ReplaceTempKeeping(list, tempId, saved) ==
    IF FindIndex(list, tempId) # 0
    THEN SubSeq(list, 1, FindIndex(list, tempId) - 1) \o saved
         \o SubSeq(list, FindIndex(list, tempId), Len(list))
    ELSE list \o saved

\* The updater that replaces the temporary AI message: splice at its index
\* if it is found, push otherwise.
ReplaceTemp(list, tempId, saved) ==
    IF FindIndex(list, tempId) # 0
    THEN SubSeq(list, 1, FindIndex(list, tempId) - 1) \o saved
         \o SubSeq(list, FindIndex(list, tempId) + 1, Len(list))
    ELSE list \o saved

\* The updater of the realtime INSERT handler.
MergeInsert(prev, newMsg) ==
    IF \E i \in DOMAIN prev : prev[i].id = newMsg.id
    THEN prev
    ELSE Append(SelectSeq(prev, LAMBDA m :
                     ~IsTemp(m.id) \/ ~(m.text = newMsg.text /\ m.sender = newMsg.sender)),
                newMsg)

\* The updater of fetchMessages: the table's history, with the optimistic
\* messages no row of it looks like.
MergeHistory(prev, rows) ==
    LET pendingOptimistic == SelectSeq(prev, LAMBDA p : IsTemp(p.id))
        remainingOptimistic ==
            SelectSeq(pendingOptimistic, LAMBDA opt :
                ~\E i \in DOMAIN rows :
                    rows[i].text = opt.text /\ rows[i].sender = opt.sender)
    IN IF pendingOptimistic # <<>> THEN rows \o remainingOptimistic ELSE rows

\* (!text.trim() && (!files || files.length === 0)) || !supabase || !user
\*     || !chatToUse || !geminiApiKey, signedIn standing for a user and a
\* key being there
Ignored(text, files, client, signedIn, chatToUse) ==
    (IsBlank(text) /\ ~files) \/ ~client \/ ~signedIn \/ chatToUse = NoChat

\* Mutant: the guard on isSendingRef.current is not there.
LockedNever(flag) == FALSE

\* if (isSendingRef.current) return { messages: [] }
Locked(flag) == flag

\* Mutant: finally starts no timer.
ReleaseNotScheduled(n) == n

\* setTimeout(() => { isSendingRef.current = false; }, 500)
ReleaseScheduled(n) == n + 1

\* The locals of a call of handleSendMessage.
SendFrame(at, chat, text, t, res) ==
    [at |-> at, chat |-> chat, text |-> text, t |-> t, currentText |-> <<>>,
     streamed |-> 0, agentMessages |-> <<>>, updatedPlan |-> FALSE,
     savedUserMessage |-> RowId(0), savedAiMessages |-> <<>>,
     row |-> Message(RowId(0), chat, "", <<>>), result |-> res]

\* A call that has returned: its locals are gone, what it returned is kept
\* ("agent" for the agent's result; "ignored", "locked" and "error" for the
\* three places that return { messages: [] }).
Returned(res) == SendFrame("returned", NoChat, <<>>, 0, res)

\* What runAgent answers: no message, a message without text, a message
\* with a text; each with or without an updated plan.
AgentAnswers == { <<>>, << <<>> >>, << <<"y">> >> }

\* The calls the component has made.
CallsMade == Len(sends) + selects + edits

\* The state names a chat. While it names none the chats are
\* interchangeable, and the next one used is called c1.
Opened ==
    \/ activeChat # NoChat \/ activeChatIdRef # NoChat
    \/ \E n \in DOMAIN sends : sends[n].chat # NoChat
    \/ messages # <<>> \/ db # <<>> \/ inbox # <<>> \/ fetches # {}

\* The hook is mounted, with a client or without, and the effects of the
\* mount have run: no chat is active, the list and the table are empty.
InitChat ==
    /\ pc = "useChat"
    /\ InitCoreIdle
    /\ messages = <<>>
    /\ activeChat = NoChat
    /\ activeChatIdRef = NoChat
    /\ isSendingRef = FALSE
    /\ sends = <<>>
    /\ timers = 0
    /\ now = 0
    /\ db = <<>>
    /\ inbox = <<>>
    /\ fetches = {}
    /\ selects = 0
    /\ edits = 0
    /\ inserted = 0
    /\ supabase \in BOOLEAN
    /\ effectsPending = FALSE
    /\ InitMemoryIdle
    /\ InitMappingIdle

\* What a step of the hook leaves alone.
restVars == <<pc, sink, wrapperVars, agentVars, displayVars, turnVars, memoryVars,
              mappingVars>>

\* setMessages(prev => [...prev, optimisticUserMessage, tempAiMessage])
Optimistic(list, chat, text, t) ==
    list \o << Message(TempUserId(t), chat, "user", text),
               Message(TempAiId(t), chat, "ai", <<>>) >>

\* handleSendMessage(text, files, chatToUse) is called, chatToUse being the
\* active chat unless the caller names one. It returns at once when there
\* is nothing to send, no chat, no client, user or key, or when a send is
\* under way; otherwise it takes the lock and either starts reading the
\* files or, without files, lists the optimistic user message and the
\* temporary AI message.
HandleSendMessage ==
    /\ pc = "useChat"
    /\ Len(sends) < MaxSends
    /\ CallsMade < MaxCalls
    /\ \E text \in {UserText, BlankText}, files \in BOOLEAN, signedIn \in BOOLEAN,
          chatToUse \in {activeChat} \cup Chats \cup {NoChat} :
         /\ (chatToUse \in Chats /\ ~Opened) => chatToUse = FirstChat
         /\ IF Ignored(text, files, supabase, signedIn, chatToUse)
            THEN /\ sends' = Append(sends, Returned("ignored"))
                 /\ UNCHANGED <<messages, isSendingRef>>
            ELSE IF Locked(isSendingRef)
            THEN /\ sends' = Append(sends, Returned("locked"))
                 /\ UNCHANGED <<messages, isSendingRef>>
            ELSE /\ isSendingRef' = TRUE
                 /\ IF files
                    THEN /\ sends' = Append(sends,
                                SendFrame("readingFiles", chatToUse, text, now, "none"))
                         /\ UNCHANGED messages
                    ELSE /\ sends' = Append(sends,
                                SendFrame("savingUser", chatToUse, text, now, "none"))
                         /\ messages' = Optimistic(messages, chatToUse, text, now)
    /\ UNCHANGED <<activeChat, activeChatIdRef, timers, now, db, inbox, fetches, selects,
                   edits, supabase, effectsPending, inserted>>
    /\ UNCHANGED restVars

\* A row is inserted into the messages table; the channel subscribed (the
\* one of the chat whose effects ran last) will deliver its INSERT event.
Insert(row) ==
    /\ db' = Append(db, row)
    /\ inserted' = inserted + 1
    /\ inbox' = IF row.chat_id = activeChatIdRef THEN Append(inbox, row) ELSE inbox

\* finally: the timer that releases the lock is started; the call returns.
Finally(n, res) ==
    /\ timers' = ReleaseScheduled(timers)
    /\ sends' = [sends EXCEPT ![n] = Returned(res)]

\* catch: the error is shown in the temporary AI message, if the list has
\* it; the call returns { messages: [] }; finally.
Catch(n, message) ==
    /\ messages' = MapError(messages, TempAiId(sends[n].t), ErrorMessage(message))
    /\ Finally(n, "error")

\* The files of call n are read: the optimistic user message and the
\* temporary AI message are listed.
FilesRead(n) ==
    /\ sends[n].at = "readingFiles"
    /\ messages' = Optimistic(messages, sends[n].chat, sends[n].text, sends[n].t)
    /\ sends' = [sends EXCEPT ![n].at = "savingUser"]
    /\ UNCHANGED <<activeChat, activeChatIdRef, isSendingRef, timers, now, db, inbox,
                   fetches, selects, edits, supabase, effectsPending, inserted>>

\* A file of call n cannot be read: catch.
FilesNotRead(n) ==
    /\ sends[n].at = "readingFiles"
    /\ \E message \in ThrownMessages : Catch(n, message)
    /\ UNCHANGED <<activeChat, activeChatIdRef, isSendingRef, now, db, inbox, fetches,
                   selects, edits, supabase, effectsPending, inserted>>

\* The table stores the user message of call n.
UserMessageInserted(n) ==
    /\ sends[n].at = "savingUser"
    /\ LET row == Message(RowId(inserted + 1), sends[n].chat, "user", sends[n].text)
       IN /\ Insert(row)
          /\ sends' = [sends EXCEPT ![n].at = "userSaved", ![n].row = row]
    /\ UNCHANGED <<messages, activeChat, activeChatIdRef, isSendingRef, timers, now,
                   fetches, selects, edits, supabase, effectsPending>>

\* addMessage returns the saved user message: it takes the place of the
\* optimistic one; runAgent is called.
UserMessageSaved(n) ==
    /\ sends[n].at = "userSaved"
    /\ messages' = MapSaved(messages, TempUserId(sends[n].t), sends[n].row)
    /\ sends' = [sends EXCEPT ![n].at = "agent", ![n].savedUserMessage = sends[n].row.id]
    /\ UNCHANGED <<activeChat, activeChatIdRef, isSendingRef, timers, now, db, inbox,
                   fetches, selects, edits, supabase, effectsPending, inserted>>

\* addMessage throws: the optimistic user message is kept and stands for
\* the saved one; runAgent is called.
UserMessageNotSaved(n) ==
    /\ sends[n].at = "savingUser"
    /\ sends' = [sends EXCEPT ![n].at = "agent",
                              ![n].savedUserMessage = TempUserId(sends[n].t)]
    /\ UNCHANGED <<messages, activeChat, activeChatIdRef, isSendingRef, timers, now, db,
                   inbox, fetches, selects, edits, supabase, effectsPending, inserted>>

\* onStreamChunk(chunk): the event of an image being drawn marks the
\* temporary AI message, and the text around it is added to what the
\* message shows; any other chunk is added to the text and takes the mark
\* away.
AgentStreams(n) ==
    /\ sends[n].at = "agent"
    /\ sends[n].streamed < MaxStreamed
    /\ \E c \in StreamedChunks :
         /\ sends' = [sends EXCEPT ![n].currentText = StreamedText(sends[n].currentText, c),
                                   ![n].streamed = sends[n].streamed + 1]
         /\ messages' = OnStreamChunk(messages, TempAiId(sends[n].t),
                                      sends[n].currentText, c)
    /\ UNCHANGED <<activeChat, activeChatIdRef, isSendingRef, timers, now, db, inbox,
                   fetches, selects, edits, supabase, effectsPending, inserted>>

\* The saved messages take the place of the temporary AI message and the
\* updated plan, if the agent gave one, is put on its message. Without a
\* plan the call returns the agent's result and its finally block runs;
\* with one, updateMessagePlan is awaited.
Complete(n, saved, updatedPlan) ==
    /\ messages' =
         IF updatedPlan
         THEN MapPlan(ReplaceTemp(messages, TempAiId(sends[n].t), saved),
                      sends[n].savedUserMessage, ThePlan)
         ELSE ReplaceTemp(messages, TempAiId(sends[n].t), saved)
    /\ IF updatedPlan
       THEN /\ sends' = [sends EXCEPT ![n].at = "savingPlan", ![n].agentMessages = <<>>,
                                      ![n].savedAiMessages = saved,
                                      ![n].updatedPlan = TRUE]
            /\ UNCHANGED timers
       ELSE /\ timers' = ReleaseScheduled(timers)
            /\ sends' = [sends EXCEPT ![n] = Returned("agent")]

\* runAgent returns its messages and, maybe, an updated plan for the
\* message the user sent: the first message is sent to the table, or, if
\* there is none, the placeholder is taken out.
AgentReturns(n) ==
    /\ sends[n].at = "agent"
    /\ \E answer \in AgentAnswers, updatedPlan \in BOOLEAN :
         IF answer = <<>>
         THEN Complete(n, <<>>, updatedPlan)
         ELSE /\ sends' = [sends EXCEPT ![n].at = "savingAi", ![n].agentMessages = answer,
                                        ![n].updatedPlan = updatedPlan]
              /\ UNCHANGED <<messages, timers>>
    /\ UNCHANGED <<activeChat, activeChatIdRef, isSendingRef, now, db, inbox, fetches,
                   selects, edits, supabase, effectsPending, inserted>>

\* runAgent throws: catch.
AgentThrows(n) ==
    /\ sends[n].at = "agent"
    /\ \E message \in ThrownMessages : Catch(n, message)
    /\ UNCHANGED <<activeChat, activeChatIdRef, isSendingRef, now, db, inbox, fetches,
                   selects, edits, supabase, effectsPending, inserted>>

\* const finalContent = messageContent.text || currentText
FinalContent(n) ==
    IF Head(sends[n].agentMessages) # <<>> THEN Head(sends[n].agentMessages)
    ELSE sends[n].currentText

\* The table stores the AI message call n is saving.
AiMessageInserted(n) ==
    /\ sends[n].at = "savingAi"
    /\ LET row == Message(RowId(inserted + 1), sends[n].chat, "ai", FinalContent(n))
       IN /\ Insert(row)
          /\ sends' = [sends EXCEPT ![n].at = "aiSaved", ![n].row = row]
    /\ UNCHANGED <<messages, activeChat, activeChatIdRef, isSendingRef, timers, now,
                   fetches, selects, edits, supabase, effectsPending>>

\* One AI message is dealt with (saved, or kept as a 'failed-' fallback):
\* the loop goes on to the next, or the placeholder is replaced.
AiMessageDone(n, msg) ==
    LET saved == Append(sends[n].savedAiMessages, msg)
        rest == Tail(sends[n].agentMessages)
    IN IF rest = <<>>
       THEN Complete(n, saved, sends[n].updatedPlan)
       ELSE /\ sends' = [sends EXCEPT ![n].at = "savingAi", ![n].agentMessages = rest,
                                      ![n].savedAiMessages = saved]
            /\ UNCHANGED <<messages, timers>>

\* addMessage returns the saved AI message.
AiMessageSaved(n) ==
    /\ sends[n].at = "aiSaved"
    /\ AiMessageDone(n, sends[n].row)
    /\ UNCHANGED <<activeChat, activeChatIdRef, isSendingRef, now, db, inbox, fetches,
                   selects, edits, supabase, effectsPending, inserted>>

\* addMessage throws: the message is kept under a 'failed-' id.
AiMessageNotSaved(n) ==
    /\ sends[n].at = "savingAi"
    /\ AiMessageDone(n, Message(FailedId(now), sends[n].chat, "ai", FinalContent(n)))
    /\ UNCHANGED <<activeChat, activeChatIdRef, isSendingRef, now, db, inbox, fetches,
                   selects, edits, supabase, effectsPending, inserted>>

\* update({ plan }).eq('id', messageId)
SetPlan(rows, id, plan) ==
    [i \in 1..Len(rows) |->
        IF rows[i].id = id THEN [rows[i] EXCEPT !.plan = plan] ELSE rows[i]]

\* The table carries out the update of updateMessagePlan: the row of that
\* id gets the plan, or no row has that id.
PlanStored(n) ==
    /\ sends[n].at = "savingPlan"
    /\ db' = SetPlan(db, sends[n].savedUserMessage, ThePlan)
    /\ sends' = [sends EXCEPT ![n].at =
                    IF \E i \in DOMAIN db : db[i].id = sends[n].savedUserMessage
                    THEN "planStored" ELSE "planMissed"]
    /\ UNCHANGED <<messages, activeChat, activeChatIdRef, isSendingRef, timers, now, inbox,
                   fetches, selects, edits, inserted, supabase, effectsPending>>

\* updateMessagePlan returns the row it updated: the call returns the
\* agent's result; finally.
PlanSaved(n) ==
    /\ sends[n].at = "planStored"
    /\ Finally(n, "agent")
    /\ UNCHANGED <<messages, activeChat, activeChatIdRef, isSendingRef, now, db, inbox,
                   fetches, selects, edits, inserted, supabase, effectsPending>>

\* updateMessagePlan throws (the table cannot be reached, or answers that
\* no row has that id): catch.
PlanNotSaved(n) ==
    /\ sends[n].at \in {"savingPlan", "planStored", "planMissed"}
    /\ \E message \in ThrownMessages : Catch(n, message)
    /\ UNCHANGED <<activeChat, activeChatIdRef, isSendingRef, now, db, inbox, fetches,
                   selects, edits, inserted, supabase, effectsPending>>

\* The steps of the calls of handleSendMessage that are under way.
SendSteps ==
    /\ pc = "useChat"
    /\ \E n \in DOMAIN sends :
         \/ FilesRead(n) \/ FilesNotRead(n)
         \/ UserMessageInserted(n) \/ UserMessageSaved(n) \/ UserMessageNotSaved(n)
         \/ AgentStreams(n) \/ AgentReturns(n) \/ AgentThrows(n)
         \/ AiMessageInserted(n) \/ AiMessageSaved(n) \/ AiMessageNotSaved(n)
         \/ PlanStored(n) \/ PlanSaved(n) \/ PlanNotSaved(n)
    /\ UNCHANGED restVars

\* The 500 ms of a timer are over: isSendingRef.current = false.
TimerFires ==
    /\ pc = "useChat"
    /\ timers > 0
    /\ timers' = timers - 1
    /\ isSendingRef' = FALSE
    /\ now' = now + 1
    /\ UNCHANGED <<messages, activeChat, activeChatIdRef, sends, db, inbox, fetches, selects,
                   edits, supabase, effectsPending, inserted>>
    /\ UNCHANGED restVars

\* The channel delivers its next INSERT event to the handler.
RealtimeInsert ==
    /\ pc = "useChat"
    /\ inbox # <<>>
    /\ messages' = MergeInsert(messages, Head(inbox))
    /\ inbox' = Tail(inbox)
    /\ UNCHANGED <<activeChat, activeChatIdRef, isSendingRef, sends, timers, now, db,
                   fetches, selects, edits, supabase, effectsPending, inserted>>
    /\ UNCHANGED restVars

\* setActiveChat(chat) (by handleSelectChat, handleUpdateChat or
\* handleDeleteChat) is committed; the effects of the commit before have
\* run. The ref, the channel and the list are as they were.
SelectChat ==
    /\ pc = "useChat"
    /\ selects < MaxSelects
    /\ CallsMade < MaxCalls
    /\ ~effectsPending
    /\ \E c \in Chats \cup {NoChat} :
         /\ c = NoChat => activeChat # NoChat
         /\ (c \in Chats /\ ~Opened) => c = FirstChat
         /\ activeChat' = c
    /\ selects' = selects + 1
    /\ effectsPending' = TRUE
    /\ UNCHANGED <<messages, activeChatIdRef, isSendingRef, sends, timers, now, db, inbox,
                   fetches, edits, inserted, supabase>>
    /\ UNCHANGED restVars

\* The effects of the commit run: the ref follows, the old channel is
\* removed, and either the history of the chat is asked for and its channel
\* subscribed, or, without a chat or without a client, the list is emptied.
EffectsRun ==
    /\ pc = "useChat"
    /\ effectsPending
    /\ effectsPending' = FALSE
    /\ activeChatIdRef' = activeChat
    /\ inbox' = <<>>
    /\ IF activeChat # NoChat /\ supabase
       THEN /\ fetches' = fetches \cup
                 {[n |-> selects, chat |-> activeChat, at |-> "asked", history |-> <<>>]}
            /\ UNCHANGED messages
       ELSE /\ messages' = <<>>
            /\ UNCHANGED fetches
    /\ UNCHANGED <<activeChat, isSendingRef, sends, timers, now, db, selects, edits,
                   inserted, supabase>>
    /\ UNCHANGED restVars

\* The table answers getMessages with the rows of the chat, oldest first.
MessagesRead ==
    /\ pc = "useChat"
    /\ \E f \in fetches :
         /\ f.at = "asked"
         /\ fetches' = (fetches \ {f}) \cup
              {[f EXCEPT !.at = "read",
                         !.history = SelectSeq(db, LAMBDA r : r.chat_id = f.chat)]}
    /\ UNCHANGED <<messages, activeChat, activeChatIdRef, isSendingRef, sends, timers, now,
                   db, inbox, selects, edits, supabase, effectsPending, inserted>>
    /\ UNCHANGED restVars

\* getMessages returns: the history is merged into the list if its chat is
\* still the active one; or getMessages throws and the list stays.
MessagesFetched ==
    /\ pc = "useChat"
    /\ \E f \in fetches :
         /\ \/ /\ f.at = "read"
               /\ messages' = IF activeChatIdRef = f.chat
                              THEN MergeHistory(messages, f.history)
                              ELSE messages
            \/ /\ f.at = "asked"
               /\ UNCHANGED messages
         /\ fetches' = fetches \ {f}
    /\ UNCHANGED <<activeChat, activeChatIdRef, isSendingRef, sends, timers, now, db, inbox,
                   selects, edits, supabase, effectsPending, inserted>>
    /\ UNCHANGED restVars

\* What a caller of the table's other functions, or of the setMessages the
\* hook hands out, leaves alone.
editFrame == <<activeChat, activeChatIdRef, isSendingRef, sends, timers, now, inbox,
               fetches, selects, inserted, supabase, effectsPending>>

\* deleteMessage(messageId): the row is deleted.
DeleteMessage ==
    /\ pc = "useChat"
    /\ edits < MaxEdits
    /\ CallsMade < MaxCalls
    /\ \E i \in DOMAIN db :
         db' = SelectSeq(db, LAMBDA r : r.id # db[i].id)
    /\ edits' = edits + 1
    /\ UNCHANGED <<messages, editFrame>>
    /\ UNCHANGED restVars

\* The updates a caller of updateMessage passes: another text, another chat.
MessageUpdates ==
    {[text |-> <<"z">>]} \cup {[chat_id |-> c] : c \in Chats}

\* update(dbUpdates).eq('id', messageId): the keys of the updates are
\* written to the row.
UpdateRow(row, updates) ==
    [k \in DOMAIN row |-> IF k \in DOMAIN updates THEN updates[k] ELSE row[k]]

\* updateMessage(messageId, updates): the row is updated.
UpdateMessage ==
    /\ pc = "useChat"
    /\ edits < MaxEdits
    /\ CallsMade < MaxCalls
    /\ \E i \in DOMAIN db, updates \in MessageUpdates :
         db' = [db EXCEPT ![i] = UpdateRow(db[i], updates)]
    /\ edits' = edits + 1
    /\ UNCHANGED <<messages, editFrame>>
    /\ UNCHANGED restVars

\* deleteProject(projectId), and deleteUser(userId) for the chats without a
\* project: delete().in('chat_id', chatIds) deletes the rows of the chats.
DeleteMessagesOfChats ==
    /\ pc = "useChat"
    /\ edits < MaxEdits
    /\ CallsMade < MaxCalls
    /\ db # <<>>
    /\ \E chatIds \in SUBSET Chats :
         /\ \E i \in DOMAIN db : db[i].chat_id \in chatIds
         /\ db' = SelectSeq(db, LAMBDA r : r.chat_id \notin chatIds)
    /\ edits' = edits + 1
    /\ UNCHANGED <<messages, editFrame>>
    /\ UNCHANGED restVars

\* setMessages, as the hook returns it, is called by the component: with an
\* empty list, or with an updater that takes one message out.
SetMessages ==
    /\ pc = "useChat"
    /\ edits < MaxEdits
    /\ CallsMade < MaxCalls
    /\ messages # <<>>
    /\ \/ messages' = <<>>
       \/ \E i \in DOMAIN messages :
            messages' = SelectSeq(messages, LAMBDA m : m.id # messages[i].id)
    /\ edits' = edits + 1
    /\ UNCHANGED <<db, editFrame>>
    /\ UNCHANGED restVars

ChatNext ==
    \/ HandleSendMessage \/ SendSteps \/ TimerFires
    \/ RealtimeInsert \/ SelectChat \/ EffectsRun \/ MessagesRead \/ MessagesFetched
    \/ DeleteMessage \/ UpdateMessage \/ DeleteMessagesOfChats \/ SetMessages

SpecChat == InitChat /\ [][ChatNext]_vars

\* The hook under the scheduling of the runtime: every awaited call of a
\* send settles and its continuation runs, every timer fires.
FairChat == SpecChat /\ WF_vars(SendSteps) /\ WF_vars(TimerFires)

\* ================================================================= claims

\* What the wrapper's trace holds.
NumEvents(ev) == Cardinality({i \in DOMAIN rtrace : rtrace[i].ev = ev})
NumCalls == NumEvents("call")
NumQuotaFails == Cardinality({i \in DOMAIN rtrace : rtrace[i].ev = "fail" /\ rtrace[i].quota})
Sleeps == SelectSeq(rtrace, LAMBDA x : x.ev = "sleep")
\* The wrapper ended by throwing and every upstream attempt had failed with
\* a quota-class error.
EveryAttemptFailedOnQuota == rpc = "threw" /\ NumQuotaFails = NumCalls

\* ---- C1
\* C1: runAutonomousAgent never raises to its caller; whatever fails inside
\* the turn, it returns exactly one AgentResult, a normal one or the
\* degraded error one: nothing is ever raised, the turn has returned at most
\* once, and it is over exactly when it has returned once, with a result of
\* one of the two kinds.
C1_NeverRaisesOneResult ==
    /\ raised = FALSE
    /\ returns <= 1
    /\ (pc = "done" <=> returns = 1)
    /\ (pc = "done" => result.kind \in {"normal", "error"} /\ result.sender = "ai")
    /\ (pc # "done" => result = NoResult)

\* A failure after a redirect, with text already accumulated, ended the turn
\* with the degraded result.
C1_Witness ==
    /\ pc = "done"
    /\ result.kind = "error"
    /\ loopCount = 2
    /\ finalResponseText # <<>>
    /\ returns = 1

\* ---- C2
\* C2: the orchestration loop never executes more than 2 iterations in one
\* turn: loopCount, which counts the handler executions, never exceeds
\* MAX_LOOPS, and control is at the loop head only while an iteration is
\* left (the second iteration always ends the turn), however many redirect
\* markers the SIMPLE handler's output holds.
C2_AtMostTwoIterations ==
    /\ loopCount <= MAX_LOOPS
    /\ (pc = "loop" => loopCount < MAX_LOOPS)

\* A turn of two iterations whose SIMPLE output held markers of two kinds.
C2_Witness ==
    /\ pc = "done"
    /\ loopCount = 2
    /\ result.kind = "normal"
    /\ Cardinality({a \in {"SEARCH", "IMAGE", "CANVAS", "STUDY", "PROJECT"} :
                      MatchFor(generatedThisLoop, a).found}) >= 2

\* ---- C3
\* C3: when every attempt of generateContentStreamWithRetry fails with a
\* quota-class error the wrapper makes exactly retries + 1 upstream attempts
\* (4 with the default ceiling 3), one after another: at most one attempt is
\* in flight at any time and every attempt but the first starts right after
\* a backoff sleep.
C3_ExactlyRetriesPlusOneAttempts ==
    /\ (EveryAttemptFailedOnQuota => NumCalls = retries + 1)
    /\ (EveryAttemptFailedOnQuota /\ retries = DefaultRetries => NumCalls = 4)
    /\ inFlight <= 1
    /\ \A i \in DOMAIN rtrace :
         rtrace[i].ev = "call" /\ i > 1 => rtrace[i - 1].ev = "sleep"

\* The default ceiling, four attempts, all failed on quota.
C3_Witness ==
    /\ rpc = "threw"
    /\ retries = DefaultRetries
    /\ NumCalls = 4
    /\ NumQuotaFails = 4

\* ---- C4
\* C4: when every attempt fails with a quota-class error, the failure the
\* wrapper finally propagates is MaxRetriesExceeded, not the upstream quota
\* error.
C4_ExhaustionIsMaxRetriesExceeded ==
    EveryAttemptFailedOnQuota /\ NumCalls > 0 => rerr = MaxRetriesExceeded

\* ---- C5
\* C5: a non-quota error of an upstream attempt ends the wrapper at once:
\* the wrapper throws that same error, the failed attempt is the last thing
\* it did (no callback, no sleep), and when it was the first failure there
\* was exactly one attempt, no sleep and no callback at all.
C5_NonQuotaErrorPropagatesAtOnce ==
    caught # NoError /\ ~isQuotaError(caught) =>
        /\ rpc = "threw"
        /\ rerr = caught
        /\ rtrace[Len(rtrace)].ev = "fail"
        /\ (NumQuotaFails = 0 =>
              NumCalls = 1 /\ NumEvents("sleep") = 0 /\ NumEvents("callback") = 0)

\* A first attempt failed with status '429' given as a string and a message
\* that only resembles a quota message: not quota-class, one attempt.
C5_Witness ==
    /\ rpc = "threw"
    /\ caught.status = "str429"
    /\ caught.hasMessage
    /\ caught.message = <<"Q", "u", "o", "t", "a", " ", "4", "2", "-", "9">>
    /\ retries > 0
    /\ NumCalls = 1

\* ---- C6
\* C6: the backoff delay before retry number k (k counted from 0) is
\* 2^k * 2000 + 1000 ms; with the default ceiling 3 and every attempt
\* failing the delays are exactly 3000, 5000, 9000 ms; the delays of one
\* call are strictly increasing.
C6_BackoffDelays ==
    /\ \A k \in DOMAIN Sleeps : Sleeps[k].n = (2 ^ (k - 1)) * 2000 + 1000
    /\ \A k \in DOMAIN Sleeps : k > 1 => Sleeps[k - 1].n < Sleeps[k].n
    /\ (EveryAttemptFailedOnQuota /\ retries = DefaultRetries =>
          [k \in DOMAIN Sleeps |-> Sleeps[k].n] = <<3000, 5000, 9000>>)

\* The default ceiling exhausted after sleeps of 3000, 5000 and 9000 ms.
C6_Witness ==
    /\ rpc = "threw"
    /\ retries = DefaultRetries
    /\ Len(Sleeps) = 3
    /\ Sleeps[3].n = 9000

\* ---- C7
\* C7 as stated: within a turn finalResponseText is only ever appended to;
\* after every step the previous text is a prefix of the new one.
C7_TextOnlyAppended ==
    [][IsPrefix(finalResponseText, finalResponseText')]_vars

\* C7 as amended: every step of every handler but CANVAS only appends to
\* finalResponseText (the previous text is a prefix of the new one), also
\* in a handler entered by redirect; the CANVAS handler replaces it.
C7_TextOnlyAppendedOutsideCanvas ==
    [][pc # "drawing" => IsPrefix(finalResponseText, finalResponseText')]_vars

\* SEARCH, entered by redirect, appended two chunks to what SIMPLE had
\* accumulated.
C7_Witness ==
    /\ pc = "done"
    /\ loopCount = 2
    /\ currentAction = "SEARCH"
    /\ result.kind = "normal"
    /\ generatedThisLoop # <<>>
    /\ finalResponseText = generatedThisLoop \o <<"x", "y">>

\* ---- C8
\* C8: the citation list of the metadata payload only grows: a step leaves
\* the old list as a prefix of the new one and never removes the key; a
\* chunk adds nothing or exactly its own records, in their order, at the
\* end (duplicates included); a normal result carries the list as it stands,
\* so records collected before a redirect stay ahead of those collected
\* after it.
C8_CitationsOnlyGrow ==
    [][/\ IsPrefix(metadataPayload.groundingMetadata, metadataPayload'.groundingMetadata)
       /\ (metadataPayload.has => metadataPayload'.has)
       /\ (nchunks' = nchunks + 1 =>
             metadataPayload'.groundingMetadata \in
                { metadataPayload.groundingMetadata,
                  metadataPayload.groundingMetadata \o chunk'.grounding })
       /\ (nchunks' # nchunks + 1 => metadataPayload' = metadataPayload)
       /\ (pc # "done" /\ pc' = "done" /\ result'.kind = "normal" =>
             /\ result'.hasGroundingMetadata = metadataPayload.has
             /\ result'.groundingMetadata = metadataPayload.groundingMetadata)]_vars

\* SIMPLE collected g1 and redirected to SEARCH, which collected g2 and g1
\* again: the result lists g1, g2, g1.
C8_Witness ==
    /\ pc = "done"
    /\ loopCount = 2
    /\ currentAction = "SEARCH"
    /\ result.kind = "normal"
    /\ result.hasGroundingMetadata
    /\ result.groundingMetadata = <<"g1", "g2", "g1">>

\* ---- C9
\* A marker of the kind with opening tokens opens and closing tokens closes
\* occurs in t, its payload on one line.
WellFormedIn(t, opens, closes) ==
    \E i, j \in DOMAIN t :
        /\ i < j
        /\ t[i] \in opens
        /\ t[j] \in closes
        /\ \A m \in (i + 1)..(j - 1) : t[m] # NL

\* A SEARCH marker, in either letter case, whose payload starts with the
\* word "deep" and white space, occurs in t.
SearchDeepIn(t) ==
    \E i, e, j \in DOMAIN t :
        /\ i + 2 <= e /\ e < j
        /\ t[i] \in {OpenTag("SEARCH"), OpenSearchLower}
        /\ IsDeepWord(t[i + 1])
        /\ \A m \in (i + 2)..e : IsSpace(t[m])
        /\ t[j] \in {CloseTag("SEARCH"), CloseSearchLower}
        /\ \A m \in (e + 1)..(j - 1) : t[m] # NL

\* The kind of redirect a is requested by t.
KindPresent(t, a) ==
    CASE a = "DEEP_SEARCH" ->
            WellFormedIn(t, {OpenTag("DEEP")}, {CloseTag("DEEP")}) \/ SearchDeepIn(t)
      [] a = "THINK" -> \E i \in DOMAIN t : t[i] = OpenTag("THINK")
      [] OTHER -> WellFormedIn(t, {OpenTag(a)}, {CloseTag(a)})

ClaimedPriority == <<"DEEP_SEARCH", "SEARCH", "THINK", "IMAGE", "PROJECT", "CANVAS", "STUDY">>

\* C9: redirect detection takes the fixed priority DEEP_SEARCH > SEARCH >
\* THINK > IMAGE > PROJECT > CANVAS > STUDY: once SIMPLE's stream has ended,
\* if its output holds markers the one redirect taken is to the kind of
\* highest priority among those present, wherever the markers stand, and
\* the redirect uses one iteration; with no marker the handler returns.
C9_HighestPriorityKindWins ==
    pc # "streaming" =>
        LET present == {n \in DOMAIN ClaimedPriority :
                          KindPresent(generatedThisLoop, ClaimedPriority[n])}
        IN IF present = {}
           THEN pc = "done" /\ result.kind = "normal" /\ currentAction = "SIMPLE"
           ELSE /\ currentAction = ClaimedPriority[Min(present)]
                /\ returns = 0
                /\ \/ pc = "loop" /\ loopCount = 1
                   \/ pc = currentAction /\ loopCount = 2

\* A SEARCH marker ahead of a DEEP marker: the redirect is to DEEP_SEARCH.
C9_Witness ==
    /\ generatedThisLoop = Pair("SEARCH") \o Pair("DEEP")
    /\ pc = "DEEP_SEARCH"
    /\ currentAction = "DEEP_SEARCH"
    /\ currentPrompt = <<"q">>

\* ---- C10
\* The first THINK opening marker of t is followed at once by the closing
\* marker, or by no closing marker at all.
ThinkEmptyOrUnterminated(t) ==
    /\ \E i \in DOMAIN t : t[i] = OpenTag("THINK")
    /\ LET i0 == Min({i \in DOMAIN t : t[i] = OpenTag("THINK")})
       IN \/ i0 < Len(t) /\ t[i0 + 1] = CloseTag("THINK")
          \/ \A j \in (i0 + 1)..Len(t) : t[j] # CloseTag("THINK")

\* C10: when SIMPLE's output holds a THINK marker with empty payload or an
\* unterminated <THINK>, and no marker of higher priority, the loop
\* redirects to THINK with the turn's top-level prompt as current prompt.
C10_EmptyThinkUsesTopPrompt ==
    /\ pc # "streaming"
    /\ ThinkEmptyOrUnterminated(generatedThisLoop)
    /\ ~KindPresent(generatedThisLoop, "DEEP_SEARCH")
    /\ ~KindPresent(generatedThisLoop, "SEARCH")
    => /\ currentAction = "THINK"
       /\ currentPrompt = TopPrompt
       /\ pc \in {"loop", "THINK"}

\* <THINK></THINK> ahead of an IMAGE marker: THINK runs with the top-level
\* prompt.
C10_Witness ==
    /\ generatedThisLoop = <<OpenTag("THINK"), CloseTag("THINK")>> \o Pair("IMAGE")
    /\ pc = "THINK"
    /\ currentPrompt = TopPrompt
    /\ TopPrompt # <<>>

\* ---- C11
\* The first THINK opening marker of t is followed by one or more blanks
\* (spaces or line breaks) and then by the closing marker.
ThinkPayloadBlank(t) ==
    /\ \E i \in DOMAIN t : t[i] = OpenTag("THINK")
    /\ LET i0 == Min({i \in DOMAIN t : t[i] = OpenTag("THINK")})
           j0 == FirstClose(t, i0, {CloseTag("THINK")})
       IN /\ j0 > i0 + 1
          /\ \A m \in (i0 + 1)..(j0 - 1) : IsSpace(t[m])

\* C11: when SIMPLE's output holds a THINK marker whose payload is made of
\* white space only, and no marker of higher priority, the redirect to THINK
\* uses the turn's top-level prompt as current prompt, not the empty string.
C11_BlankThinkUsesTopPrompt ==
    /\ pc # "streaming"
    /\ ThinkPayloadBlank(generatedThisLoop)
    /\ ~KindPresent(generatedThisLoop, "DEEP_SEARCH")
    /\ ~KindPresent(generatedThisLoop, "SEARCH")
    => /\ currentAction = "THINK"
       /\ currentPrompt = TopPrompt

\* ---- C12
\* The payload of the marker with opening token open and closing token close
\* that t requests with: what stands between the first opening token that has
\* a closing token after it on its line, and the first closing token after it.
PayloadIn(t, open, close) ==
    LET i0 == Min({i \in DOMAIN t : t[i] = open /\ \E j \in DOMAIN t :
                      /\ i < j
                      /\ t[j] = close
                      /\ \A m \in (i + 1)..(j - 1) : t[m] # NL})
        j0 == Min({j \in DOMAIN t : i0 < j /\ t[j] = close})
    IN SubSeq(t, i0 + 1, j0 - 1)

\* The marker kind whose tags request action a.
KindOf(a) == IF a = "DEEP_SEARCH" THEN "DEEP" ELSE a

\* C12: when SIMPLE's output holds a well-formed marker <X>payload</X>, X one
\* of SEARCH, DEEP, IMAGE, PROJECT, CANVAS, STUDY, and no marker of higher
\* priority, the redirect is to the action of X with exactly that payload as
\* current prompt, and it takes one unit of the iteration budget: the next
\* iteration is the second and last.
C12_MarkerPayloadBecomesPrompt ==
    \A n \in DOMAIN ClaimedPriority :
        LET a == ClaimedPriority[n]
            t == generatedThisLoop
        IN /\ pc # "streaming"
           /\ a # "THINK"
           /\ WellFormedIn(t, {OpenTag(KindOf(a))}, {CloseTag(KindOf(a))})
           /\ \A h \in 1..(n - 1) : ~KindPresent(t, ClaimedPriority[h])
           => /\ currentAction = a
              /\ currentPrompt = PayloadIn(t, OpenTag(KindOf(a)), CloseTag(KindOf(a)))
              /\ \/ pc = "loop" /\ loopCount = 1 /\ MAX_LOOPS - loopCount = 1
                 \/ pc = a /\ loopCount = 2 /\ MAX_LOOPS - loopCount = 0

\* <PROJECT>q</PROJECT> after a stray closing tag and ahead of a STUDY marker:
\* PROJECT runs in the second iteration with the prompt "q".
C12_Witness ==
    /\ generatedThisLoop = <<CloseTag("IMAGE")>> \o Pair("PROJECT") \o Pair("STUDY")
    /\ pc = "PROJECT"
    /\ currentPrompt = <<"q">>
    /\ loopCount = 2

\* ---- C13
\* The failure note for the message m ends the text.
EndsWithFailureNote(text, m) ==
    LET note == <<"\n\n(Image generation failed: ">> \o m \o <<")">>
    IN /\ Len(text) >= Len(note)
       /\ SubSeq(text, Len(text) - Len(note) + 1, Len(text)) = note
\* The text holds a failure note.
FailureNoteIn(text) ==
    \E i \in DOMAIN text : text[i] = "\n\n(Image generation failed: "

\* C13: the IMAGE handler always ends the turn with a normal message; the
\* message carries an image exactly when the generator succeeded, and then
\* its text is the accumulated text with no failure note; when the generator
\* raised Error(m) the message has no image and its text is the accumulated
\* text followed by "(Image generation failed: m)", which is also streamed
\* (for a thrown value that is no Error the note says "Unknown error").
\* No other handler returns an image.
C13_ImageIffGeneratorSucceeded ==
    /\ [](result.hasImage => currentAction = "IMAGE" /\ result.kind = "normal")
    /\ [][pc = "imaging" =>
            /\ pc' = "done"
            /\ returns' = returns + 1
            /\ result'.kind = "normal"
            /\ \/ /\ result'.hasImage
                  /\ result'.text = finalResponseText
                  /\ ~FailureNoteIn(result'.text)
                  /\ sink' = sink
               \/ /\ ~result'.hasImage
                  /\ caught' \in CollabErrors
                  /\ LET m == IF caught'.isError THEN caught'.message
                              ELSE <<"Unknown error">>
                     IN /\ EndsWithFailureNote(result'.text, m)
                        /\ Len(result'.text) = Len(finalResponseText) + Len(m) + 2
                        /\ IsPrefix(finalResponseText, result'.text)
                        /\ sink' = Append(sink, TextMsg(<<"\n\n(Image generation failed: ">>
                                                        \o m \o <<")">>))]_vars

\* SIMPLE asked for an image, the generator raised Error("rate limited"): the
\* turn ends normally, without image, the note after the marker text.
C13_Witness ==
    /\ pc = "done"
    /\ currentAction = "IMAGE"
    /\ result.kind = "normal"
    /\ ~result.hasImage
    /\ IsPrefix(Pair("IMAGE"), result.text)
    /\ caught.isError
    /\ EndsWithFailureNote(result.text,
                           <<"r", "a", "t", "e", " ", "l", "i", "m", "i", "t", "e", "d">>)

\* ---- C14
\* r is the degraded message of the turn.
IsDegraded(r) ==
    /\ r.sender = "ai"
    /\ r.project_id = ProjectId
    /\ r.chat_id = ChatId
    /\ Len(r.text) >= 1
    /\ r.text[1] = "An error occurred: "
    /\ ~r.hasImage
    /\ ~r.hasGroundingMetadata

\* C14: when the router or the memory fetch fails, or the retrying client
\* gives up on an error that is not of the quota class, or any other error
\* escapes the loop, the turn returns once, a single message sent by 'ai'
\* for the turn's project and chat whose text starts with
\* 'An error occurred: '.
C14_EscapedErrorIsDegradedResult ==
    /\ [](result.kind = "error" => IsDegraded(result) /\ returns = 1 /\ pc = "done")
    /\ [][(\/ pc \in {"routing", "routed"} /\ pc' = "done"
           \/ pc = "opening" /\ rpc = "threw" /\ ~isQuotaError(rerr))
          => result'.kind = "error" /\ IsDegraded(result')]_vars

\* The router failed: nothing was routed, the turn returned the degraded
\* message.
C14_Witness ==
    /\ pc = "done"
    /\ loopCount = 0
    /\ sink = <<>>
    /\ result.kind = "error"
    /\ returns = 1

\* ---- C16
\* The positions inside the loop body of runAutonomousAgent.
InHandler ==
    pc \in {"SEARCH", "DEEP_SEARCH", "THINK", "IMAGE", "CANVAS", "PROJECT", "STUDY", "SIMPLE",
            "opening", "streaming", "imaging", "drawing", "counting", "researching",
            "building"}

\* C16: only the SIMPLE (default) handler changes the current action or sends
\* the turn back to the loop head: every step of the handler of SEARCH,
\* DEEP_SEARCH, THINK, IMAGE, CANVAS, PROJECT or STUDY leaves the current
\* action, the current prompt and the iteration count as they are, and the
\* handler ends by ending the turn, whatever markers its text holds.
C16_OnlySimpleRedirects ==
    [][InHandler /\ CaseOf(currentAction) # "SIMPLE" =>
          /\ currentAction' = currentAction
          /\ currentPrompt' = currentPrompt
          /\ loopCount' = loopCount
          /\ pc' \in {"opening", "streaming", "imaging", "drawing", "counting",
                     "researching", "building", "done"}
          /\ pc' = "done" => returns' = 1]_vars

\* The router chose THINK, whose stream delivered a SEARCH marker: the turn
\* ended in the first iteration, the marker in its text.
C16_Witness ==
    /\ pc = "done"
    /\ currentAction = "THINK"
    /\ loopCount = 1
    /\ result.kind = "normal"
    /\ result.text = Pair("SEARCH")

\* ---- C19
\* C19: in generateContentStreamWithRetry called with a progress callback,
\* the callback is invoked once per retry, right after the failed attempt (a
\* quota-class failure) and right before that retry's backoff sleep, with
\* the sleep's length in rounded seconds; it is never invoked after the
\* final failing attempt or after a failure that is not retried, so a
\* finished run of n attempts made n - 1 invocations.  Without callback
\* there is none.
C19_CallbackOncePerRetry ==
    /\ \A i \in DOMAIN rtrace :
         rtrace[i].ev = "callback" =>
            /\ hasOnRetry
            /\ i > 1 /\ rtrace[i - 1].ev = "fail" /\ rtrace[i - 1].quota
            /\ i < Len(rtrace) /\ rtrace[i + 1].ev = "sleep"
            /\ rtrace[i].n = (rtrace[i + 1].n + 500) \div 1000
    /\ hasOnRetry =>
         /\ \A i \in DOMAIN rtrace :
              rtrace[i].ev = "sleep" => i > 1 /\ rtrace[i - 1].ev = "callback"
         /\ NumEvents("callback") = Len(Sleeps)
         /\ rpc \in {"returned", "threw"} => NumEvents("callback") = NumCalls - 1
    /\ rpc = "threw" /\ rtrace # <<>> => rtrace[Len(rtrace)].ev = "fail"

\* Two retries with callback, then success: three attempts, two invocations.
C19_Witness ==
    /\ pc = "wrapper"
    /\ rpc = "returned"
    /\ hasOnRetry
    /\ NumCalls = 3
    /\ NumEvents("callback") = 2

\* ---- C20
\* C20: when the CANVAS handler completes, the turn's final text and the text
\* of the returned message are exactly the text of the first message the
\* canvas collaborator returned, empty when that message has no text,
\* whatever text the turn had accumulated before.
C20_CanvasTextIsCollaboratorText ==
    [][pc = "drawing" /\ result'.kind = "normal" =>
          /\ pc' = "done"
          /\ result'.text = finalResponseText'
          /\ \E r \in CanvasAnswers :
               r.messages > 0 /\ finalResponseText' = r.text]_vars

\* SIMPLE streamed a CANVAS marker, the collaborator answered "canvas code":
\* the marker text is gone from the final text.
C20_Witness ==
    /\ pc = "done"
    /\ currentAction = "CANVAS"
    /\ loopCount = 2
    /\ generatedThisLoop # <<>>
    /\ result.kind = "normal"
    /\ result.text = <<"canvas code">>
    /\ finalResponseText = <<"canvas code">>

\* ---- C15
\* C15: display-time extraction is idempotent on its clean text: parsing the
\* clean text of a parsed message again leaves it as it is.
C15_CleanIsIdempotent ==
    reshown # NotParsed => reshown.clean = shown.clean

\* ---- C17
DisplayKinds == {"THINK", "CANVAS", "MEMORY", "IMAGE", "SEARCH", "PROJECT", "STUDY", "DEEP"}

\* C17: the clean text parseMessageContent returns holds no block of a known
\* marker kind, closed or left open: no opening marker of any kind stands
\* in it.
C17_CleanHoldsNoMarkerBlock ==
    shown # NotParsed =>
        \A k \in DisplayKinds : IndexOf(shown.clean, OpenChars(k), 1) = 0

\* ---- C18
\* The text s holds an opening marker of kind k with no closing marker after
\* it.
LeftOpen(s, k) ==
    /\ IndexOf(s, OpenChars(k), 1) # 0
    /\ IndexOf(s, CloseChars(k), IndexOf(s, OpenChars(k), 1) + Len(OpenChars(k))) = 0

\* C18: for a text with an opening THINK (or CANVAS) marker and no closing
\* marker after it, the thinking (or canvas) block is everything after the
\* opening marker, trimmed (the canvas block with a wrapping code fence
\* stripped), and the clean text holds nothing from the opening marker on:
\* it is the clean text of what stands before the marker.
C18_OpenBlockRunsToEnd ==
    shown # NotParsed =>
        \A k \in {"THINK", "CANVAS"} :
            LeftOpen(content, k) =>
                LET i == IndexOf(content, OpenChars(k), 1)
                    before == SubSeq(content, 1, i - 1)
                    after == SubSeq(content, i + Len(OpenChars(k)), Len(content))
                IN /\ k = "THINK" => shown.thinking = Str(Trim(after))
                   /\ k = "CANVAS" => shown.canvas = CleanCanvas(Str(Trim(after)))
                   /\ shown.clean = parseMessageContent(before).clean

\* ---- C21
\* How often the collaborator named c was called.
TimesCalled(c) == Cardinality({i \in DOMAIN calls : calls[i] = c})

\* C21: in THINK the increment of the usage counter is attempted before the
\* reasoning stream is opened, and its failure never aborts the turn: from
\* the handler's entry the increment is attempted and awaited; when it has
\* settled, counted or not, no upstream call was started yet, nothing is
\* returned and the retrying client is entered; the counter moves at no
\* other step.
C21_CounterFailureNeverAborts ==
    /\ [](CaseOf(currentAction) = "THINK" /\ (inFlight > 0 \/ pc = "streaming")
            => TimesCalled("incrementThinkingCount") = 1)
    /\ [][/\ pc = "THINK" =>
               /\ calls' = Append(calls, "incrementThinkingCount")
               /\ thinkingCount' = thinkingCount
               /\ pc' = "counting" /\ rpc' = "idle"
               /\ returns' = 0 /\ result' = NoResult
          /\ pc = "counting" =>
               /\ calls' = calls
               /\ thinkingCount' \in {thinkingCount, thinkingCount + 1}
               /\ pc' = "opening" /\ rpc' = "loop"
               /\ inFlight' = 0 /\ rtrace' = <<>>
               /\ returns' = 0 /\ result' = NoResult
          /\ thinkingCount' # thinkingCount => pc = "counting"]_vars

\* A THINK turn whose increment failed: the counter stands at zero, the
\* stream ran and the turn returned its normal result.
C21_Witness ==
    /\ pc = "done"
    /\ currentAction = "THINK"
    /\ TimesCalled("incrementThinkingCount") = 1
    /\ thinkingCount = 0
    /\ result.kind = "normal"
    /\ result.text # <<>>

\* ---- C22
\* The sink's messages that are the JSON marker image_generation_start.
StartMarkers == {i \in DOMAIN sink : sink[i].kind = "image_generation_start"}

\* C22: the IMAGE handler gives the sink the JSON marker
\* image_generation_start, holding the text accumulated so far, before the
\* image generator is called, on every execution: the handler delivers the
\* marker and calls the generator in the same run, up to its await; the
\* generator is called by that step only, the marker being the last thing
\* the sink heard, and while the generator is awaited no call is made and
\* the markers stay.
C22_ImageStartBeforeGenerator ==
    /\ [](TimesCalled("generateImage") <= Cardinality(StartMarkers))
    /\ [][/\ pc = "IMAGE" =>
               /\ Len(sink') = Len(sink) + 1
               /\ sink'[Len(sink')].kind = "image_generation_start"
               /\ sink'[Len(sink')].body = finalResponseText
               /\ SubSeq(sink', 1, Len(sink)) = sink
               /\ calls' = Append(calls, "generateImage")
               /\ pc' = "imaging"
          /\ TimesCalled("generateImage")' > TimesCalled("generateImage") =>
               /\ pc = "IMAGE"
               /\ sink' # <<>>
               /\ sink'[Len(sink')].kind = "image_generation_start"
          /\ pc = "imaging" =>
               /\ calls' = calls
               /\ \A i \in StartMarkers : sink'[i] = sink[i]]_vars

\* An IMAGE handler entered by redirect: the marker came after the text
\* SIMPLE streamed and holds it, the generator was called and answered.
C22_Witness ==
    /\ pc = "done"
    /\ loopCount = MAX_LOOPS
    /\ currentAction = "IMAGE"
    /\ TimesCalled("generateImage") = 1
    /\ result.hasImage
    /\ \E i \in StartMarkers : i > 1 /\ sink[i].body # <<>>

\* ---- C23
\* C23: the router and the memory store are each called exactly once per
\* turn, the router first, both before the first handler begins; after a
\* redirect neither is called again, nor is the timestamp computed again.
C23_RouterAndMemoryOnce ==
    /\ [](/\ TimesCalled("router.route") = (IF pc = "start" THEN 0 ELSE 1)
          /\ TimesCalled("memory.getContext") <= 1
          /\ pc \in {"start", "routing"} => calls = SubSeq(<<"router.route">>, 1, Len(calls))
          /\ TimesCalled("formatTimestamp") <= 1
          /\ pc \notin {"start", "routed"} /\ (loopCount >= 1 \/ pc = "loop") =>
               /\ Len(calls) >= 3
               /\ SubSeq(calls, 1, 3) = <<"router.route", "memory.getContext", "formatTimestamp">>)
    /\ [][loopCount >= 1 =>
            /\ TimesCalled("router.route")' = TimesCalled("router.route")
            /\ TimesCalled("memory.getContext")' = TimesCalled("memory.getContext")
            /\ TimesCalled("formatTimestamp")' = TimesCalled("formatTimestamp")]_vars

\* A turn that redirected and whose second handler called its collaborator:
\* the router, the memory store and the clock were called once, first.
C23_Witness ==
    /\ pc = "done"
    /\ loopCount = MAX_LOOPS
    /\ Len(calls) = 4
    /\ TimesCalled("router.route") = 1
    /\ TimesCalled("memory.getContext") = 1
    /\ TimesCalled("formatTimestamp") = 1

\* ---- C24
\* The text t holds something that is not white space.
NonBlank(t) == \E j \in DOMAIN t : t[j] \notin {SP, NL}
\* The turns of history h that hold something, and the k-th of them.
KeptTurns(h) == {i \in DOMAIN h : NonBlank(h[i].text)}
KthKept(h, k) ==
    CHOOSE i \in KeptTurns(h) : Cardinality({j \in KeptTurns(h) : j <= i}) = k

\* C24: the conversational context THINK and SIMPLE send upstream is the
\* history in its original order, a turn sent by 'user' with the role
\* 'user' and a turn of any other sender with the role 'model', without
\* the turns whose text is empty or white space only; the current user
\* turn follows it.
C24_ContextIsFilteredHistory ==
    contents # NoContents =>
        /\ Len(contents) = Cardinality(KeptTurns(history)) + 1
        /\ \A k \in 1..Cardinality(KeptTurns(history)) :
             LET turn == history[KthKept(history, k)]
             IN /\ contents[k].text = turn.text
                /\ contents[k].role = (IF turn.sender = "user" THEN "user" ELSE "model")
        /\ contents[Len(contents)] = [role |-> "user", text |-> currentPrompt]

\* A history of a blank turn and a turn that is neither the user's nor the
\* assistant's: the contents hold the second, as the model's, and the
\* current user turn.
C24_Witness ==
    /\ pc = "opening"
    /\ Len(history) = 2
    /\ ~NonBlank(history[1].text)
    /\ history[2].sender = "system" /\ NonBlank(history[2].text)
    /\ Len(contents) = 2
    /\ contents[1].role = "model"

\* ---- C25
\* The texts the sink was given, one after the other.
HeardTexts == SelectSeq(sink, LAMBDA msg : msg.kind = "text")
HeardText == Flatten([i \in 1..Len(HeardTexts) |-> HeardTexts[i].body])
\* The handlers that stream: SEARCH, THINK, STUDY and SIMPLE.
StreamingHandler == CaseOf(currentAction) \in {"SEARCH", "THINK", "STUDY", "SIMPLE"}

\* C25: in SEARCH, THINK, STUDY and SIMPLE every chunk with a text has its
\* text given to the sink and appended to the accumulated text in the pass
\* that consumes it, before the next chunk, and a chunk without text
\* changes neither; so while the stream is read and when it has ended the
\* accumulated text is what the sink heard, in order: the text from before
\* the stream followed by the chunks' texts.
C25_ChunksReachSinkInOrder ==
    /\ [](StreamingHandler /\ loopCount >= 1
          /\ (pc \in {"opening", "streaming"} \/ (pc = "done" /\ result.kind = "normal"))
            => /\ finalResponseText = HeardText
               /\ pc = "done" => result.text = HeardText)
    /\ [][pc = "streaming" /\ nchunks' = nchunks + 1 =>
            IF chunk'.text # <<>>
            THEN /\ sink' = Append(sink, [kind |-> "text", body |-> chunk'.text, secs |-> 0])
                 /\ finalResponseText' = finalResponseText \o chunk'.text
            ELSE /\ sink' = sink
                 /\ finalResponseText' = finalResponseText]_vars

\* A SEARCH handler entered by redirect whose stream delivered two texts
\* and ended: the sink heard the text SIMPLE streamed, then both.
C25_Witness ==
    /\ pc = "done"
    /\ result.kind = "normal"
    /\ loopCount = MAX_LOOPS
    /\ currentAction = "SEARCH"
    /\ nchunks = 2
    /\ Len(HeardTexts) >= 3
    /\ HeardTexts[Len(HeardTexts)].body # HeardTexts[Len(HeardTexts) - 1].body

\* ---- C26
\* The sink's messages that announce a retry.
RetryNotes == {i \in DOMAIN sink : sink[i].kind = "retry"}

\* C26: every upstream call of the core is made inside the retrying
\* client, by a streaming handler, except the call of the PROJECT handler:
\* that handler makes one direct call and the turn ends with it, with a
\* normal result or, when the call fails, quota-class or not, with the
\* degraded result; no retry is announced, no backoff sleep starts and no
\* second call is made.
C26_ProjectCallsOnceUnretried ==
    /\ [](/\ TimesCalled("ai.models.generateContent") <= 1
          /\ TimesCalled("ai.models.generateContent") = 1 =>
               /\ pc \in {"building", "done"}
               /\ currentAction = "PROJECT"
               /\ pc = "done" => returns = 1
          /\ inFlight > 0 => rpc = "calling" /\ pc = "opening" /\ StreamingHandler)
    /\ [][/\ pc = "PROJECT" =>
               /\ calls' = Append(calls, "ai.models.generateContent")
               /\ pc' = "building"
               /\ rpc' = "idle" /\ rtrace' = <<>> /\ inFlight' = 0
               /\ RetryNotes' = RetryNotes
          /\ pc = "building" =>
               /\ calls' = calls
               /\ pc' = "done"
               /\ result'.kind \in {"normal", "error"}
               /\ rpc' = "idle" /\ rtrace' = <<>> /\ inFlight' = 0
               /\ RetryNotes' = RetryNotes
          /\ inFlight' > inFlight => rpc = "loop" /\ rpc' = "calling"]_vars

\* A PROJECT handler whose call failed: one call, no retry announced, the
\* degraded result.
C26_Witness ==
    /\ pc = "done"
    /\ currentAction = "PROJECT"
    /\ TimesCalled("ai.models.generateContent") = 1
    /\ result.kind = "error"
    /\ RetryNotes = {}
    /\ sink # <<>> /\ sink[Len(sink)].kind = "status"

\* ---- C27
\* C27: every started turn eventually ends with a returned AgentResult,
\* every collaborator call returning or failing and every stream being
\* finite: the loop runs at most MAX_LOOPS iterations, the retrying client
\* makes at most retries + 1 attempts of one call, and the turn reaches its
\* end having returned one result.
C27_EveryTurnEnds ==
    /\ [](loopCount <= MAX_LOOPS /\ attempt <= retries /\ NumCalls <= retries + 1)
    /\ <>[](pc = "done" /\ returns = 1 /\ result.kind \in {"normal", "error"})

\* A turn that ended in its second iteration after the retrying client had
\* slept and called again.
C27_Witness ==
    /\ pc = "done"
    /\ returns = 1
    /\ loopCount = MAX_LOOPS
    /\ Cardinality(RetryNotes) >= 2

\* ---- C28
\* C28: a failure raised while an opened stream is iterated is never
\* retried, quota-class or not: while the stream is read the retrying
\* client is idle with no call in flight, and the step that ends the
\* reading never goes back to it; no retry is announced, no backoff sleep
\* starts, and a failing stream ends the turn at once with the degraded
\* error result.
C28_StreamFailureIsNotRetried ==
    /\ [](pc = "streaming" => rpc = "idle" /\ inFlight = 0 /\ rtrace = <<>>)
    /\ [][pc = "streaming" =>
            /\ pc' \in {"streaming", "loop", "done"}
            /\ rpc' = "idle" /\ inFlight' = 0 /\ rtrace' = <<>>
            /\ RetryNotes' = RetryNotes
            /\ calls' = calls
            /\ result'.kind = "error" =>
                 /\ pc' = "done"
                 /\ IsDegraded(result')
                 /\ returns' = 1
                 /\ sink' = sink]_vars

\* SIMPLE's stream was opened at the first attempt, delivered a text and
\* then broke: the turn returned the degraded result, no retry was
\* announced.
C28_Witness ==
    /\ pc = "done"
    /\ result.kind = "error"
    /\ loopCount = 1
    /\ currentAction = "SIMPLE"
    /\ nchunks >= 1
    /\ finalResponseText # <<>>
    /\ RetryNotes = {}

\* ---- C29
\* The seven actions with a handler of their own.
NonSimpleActions == {"SEARCH", "DEEP_SEARCH", "THINK", "IMAGE", "PROJECT", "CANVAS", "STUDY"}

\* C29: the SIMPLE handler runs only in the first iteration, hence at most
\* once: a second iteration is only begun by SIMPLE's redirect, its action
\* is one of the seven other actions, it never asks for a third, and the
\* loop head is never reached with the budget used up, so the return after
\* the loop is never taken: a turn ends by a handler's return or by a
\* failure.
C29_SimpleOnlyInFirstIteration ==
    /\ [](/\ pc = "SIMPLE" => loopCount = 1
          /\ loopCount = MAX_LOOPS => currentAction \in NonSimpleActions /\ pc # "loop"
          /\ pc = "loop" => loopCount < MAX_LOOPS)
    /\ [][/\ pc = "loop" => pc' \in NonSimpleActions \cup {"SIMPLE"} /\ returns' = 0
          /\ pc' = "loop" /\ pc # "routed" =>
               /\ pc = "streaming" /\ loopCount = 1
               /\ ~(currentAction \in NonSimpleActions)
               /\ currentAction' \in NonSimpleActions]_vars

\* A second iteration under way: SIMPLE redirected and the STUDY handler
\* reads its stream.
C29_Witness ==
    /\ pc = "streaming"
    /\ loopCount = MAX_LOOPS
    /\ currentAction = "STUDY"
    /\ generatedThisLoop # <<>>
    /\ nchunks = 1

\* ---- C30
\* The errors a turn can fail with.
TurnErrors == Errors \cup CollabErrors \cup {MaxRetriesExceeded}

\* C30: when a failure escapes after text was accumulated or citations
\* were collected in the turn, the returned message's text is only
\* 'An error occurred: ' followed by the friendly message, and the message
\* carries no citation metadata and no image.
C30_ErrorResultDropsAccumulated ==
    result.kind = "error" /\ (finalResponseText # <<>> \/ metadataPayload.has) =>
        /\ \E e \in TurnErrors :
             result.text = <<"An error occurred: ">> \o getUserFriendlyError(e)
        /\ \A i \in DOMAIN finalResponseText :
             \A j \in DOMAIN result.text : result.text[j] # finalResponseText[i]
        /\ ~result.hasGroundingMetadata
        /\ result.groundingMetadata = <<>>
        /\ ~result.hasImage

\* SIMPLE streamed a marker text with a citation and redirected, then the
\* second handler failed: text and citations were there, the degraded
\* message was returned.
C30_Witness ==
    /\ pc = "done"
    /\ result.kind = "error"
    /\ loopCount = MAX_LOOPS
    /\ finalResponseText # <<>>
    /\ metadataPayload.has
    /\ metadataPayload.groundingMetadata # <<>>

\* ---- C31
\* C31: in the SIMPLE handler the citation records of a chunk are added to
\* the metadata payload only when that chunk has a text; in the SEARCH
\* handler they are added whether the chunk has a text or not.
C31_SimpleCitationsNeedText ==
    [][pc = "streaming" /\ nchunks' = nchunks + 1 =>
         /\ CaseOf(currentAction) = "SIMPLE" =>
              IF chunk'.text # <<>> /\ chunk'.hasGrounding
              THEN /\ metadataPayload'.has
                   /\ metadataPayload'.groundingMetadata =
                        metadataPayload.groundingMetadata \o chunk'.grounding
              ELSE metadataPayload' = metadataPayload
         /\ CaseOf(currentAction) = "SEARCH" =>
              IF chunk'.hasGrounding
              THEN /\ metadataPayload'.has
                   /\ metadataPayload'.groundingMetadata =
                        metadataPayload.groundingMetadata \o chunk'.grounding
              ELSE metadataPayload' = metadataPayload]_vars

\* SIMPLE has just consumed a chunk that holds citations and no text: the
\* payload holds nothing.
C31_Witness ==
    /\ pc = "streaming"
    /\ CaseOf(currentAction) = "SIMPLE"
    /\ chunk.text = <<>>
    /\ chunk.hasGrounding
    /\ chunk.grounding # <<>>
    /\ ~metadataPayload.has

\* ---- C38
\* The keys that belong to the UI or to the agents, and the camelCase key
\* of the citations.
UiOnlyKeys == {"imageStatus", "isOptimistic", "memoryToCreate", "groundingMetadata"}

\* C38: the row addMessage writes for a message m holds none of the keys
\* imageStatus, isOptimistic, memoryToCreate and groundingMetadata, and
\* the message addMessage maps back from the stored row has m's
\* groundingMetadata (undefined if m has none) and an undefined
\* imageStatus.
C38_MappingRoundTrips ==
    /\ pc \in {"inserting", "added", "failed"} => DOMAIN dbRow \cap UiOnlyKeys = {}
    /\ pc = "added" =>
         /\ "groundingMetadata" \in DOMAIN roundTrip
         /\ roundTrip["groundingMetadata"] =
              (IF "groundingMetadata" \in DOMAIN appMessage
               THEN appMessage["groundingMetadata"]
               ELSE [t |-> "undefined", v |-> <<>>])
         /\ "imageStatus" \in DOMAIN roundTrip
         /\ roundTrip["imageStatus"] = [t |-> "undefined", v |-> <<>>]

\* A message with a loader state, the UI's and the agents' marks, a citation
\* and a stale snake_case key was written and mapped back.
C38_Witness ==
    /\ pc = "added"
    /\ UiOnlyKeys \subseteq DOMAIN appMessage
    /\ "grounding_metadata" \in DOMAIN appMessage
    /\ appMessage["grounding_metadata"] # appMessage["groundingMetadata"]
    /\ appMessage["groundingMetadata"].t = "array"
    /\ appMessage["groundingMetadata"].v # <<>>
    /\ roundTrip["groundingMetadata"] = appMessage["groundingMetadata"]

\* ---- C37
\* The table was written by calls of saveMemory only.
OnlySaveMemory == \A n \in DOMAIN saves : saves[n].fn = "saveMemory"

\* C37: for a user, a layer and a memory key the memories table holds at
\* most one row after any calls of saveMemory, also when the existence
\* checks and the writes of two calls for the same key interleave.
C37_OneMemoryPerKey ==
    OnlySaveMemory =>
        \A layer \in MemoryLayers, key \in MemoryKeys :
            Cardinality(MatchingRows(layer, key)) <= 1

\* ---------------------------------------------------------------- C32, C33

\* The calls of handleSendMessage that have not returned.
Running == {n \in DOMAIN sends : sends[n].at # "returned"}

\* C32: at most one send is in flight, and a call of handleSendMessage made
\* while the sending flag is set returns { messages: [] } and changes
\* neither the message list, nor the table, nor the flag, and runs no agent.
C32_OneSendInFlight ==
    /\ [](Cardinality(Running) <= 1)
    /\ [][(Len(sends') = Len(sends) + 1 /\ isSendingRef) =>
            /\ SubSeq(sends', 1, Len(sends)) = sends
            /\ sends'[Len(sends')].at = "returned"
            /\ sends'[Len(sends')].result \in {"locked", "ignored"}
            /\ messages' = messages
            /\ db' = db
            /\ inbox' = inbox
            /\ isSendingRef' = isSendingRef
            /\ timers' = timers]_vars

\* A call was turned away while the send before it was with the agent.
C32_Witness ==
    /\ Len(sends) = 2
    /\ sends[1].at = "agent"
    /\ sends[2].result = "locked"

\* C33: while a send that set the flag is running the flag stays set and no
\* timer is pending, and a flag that is set is cleared in the end, whether
\* the send returns the agent's result or ends in catch.
C33_FlagClearedAfterSend ==
    /\ [](Running # {} => isSendingRef /\ timers = 0)
    /\ []<>(~isSendingRef)

\* A second send runs after the first ended in catch and its timer fired.
C33_Witness ==
    /\ Len(sends) = 2
    /\ sends[1].result = "error"
    /\ sends[2].at = "agent"
    /\ isSendingRef

\* ---------------------------------------------------------------- C34, C35

\* C34: the message list never holds two entries with the same id.
C34_IdsUnique ==
    \A i, j \in DOMAIN messages : messages[i].id = messages[j].id => i = j

\* C35: every entry of the message list belongs to the active chat, and the
\* list is empty when no chat is active.
C35_MessagesOfActiveChat ==
    \A i \in DOMAIN messages : messages[i].chat_id = activeChat

\* Nothing is under way: no effect, no fetch, no send, no event, no timer.
Settled ==
    ~effectsPending /\ fetches = {} /\ Running = {} /\ inbox = <<>> /\ timers = 0

\* The weaker reading of C35: once nothing is under way, every entry of the
\* list belongs to the active chat.
C35_SettledMessagesOfActiveChat ==
    Settled => C35_MessagesOfActiveChat

\* ---------------------------------------------------------------- C36

\* msg is in the list.
Listed(list, msg) == \E i \in DOMAIN list : list[i] = msg

\* The list has no placeholder of call n and has every message of saved.
Replaced(list, n, saved) ==
    /\ \A i \in DOMAIN list : list[i].id # TempAiId(sends[n].t)
    /\ \A k \in DOMAIN saved : Listed(list, saved[k])

\* Call n runs the updater that replaces its placeholder in this step.
Replaces(n) ==
    /\ n \in DOMAIN sends
    /\ sends[n].at \in {"agent", "savingAi", "aiSaved"}
    /\ \/ sends'[n].at = "savingPlan"
       \/ sends'[n].at = "returned" /\ sends'[n].result = "agent"

\* What call n has saved once the message it is dealing with is done.
SavedBy(n) ==
    sends[n].savedAiMessages \o
        (IF sends[n].at = "aiSaved" THEN <<sends[n].row>>
         ELSE IF sends[n].at = "savingAi"
         THEN <<Message(FailedId(now), sends[n].chat, "ai", FinalContent(n))>>
         ELSE <<>>)

\* The realtime handler runs in this step.
Delivers == inbox # <<>> /\ inbox' = Tail(inbox) /\ effectsPending' = effectsPending

\* Call n awaits updateMessagePlan.
SavesPlan(n) ==
    n \in DOMAIN sends /\ sends[n].at \in {"savingPlan", "planStored", "planMissed"}

\* C36: when a send completes without exception, its temporary AI message
\* is no longer in the list, and every AI message the agent returned is:
\* the saved row, or the 'failed-' fallback with the same text when the
\* save failed; whatever the realtime callback did before. The updater of
\* the send brings this about, the realtime callback keeps it while the
\* plan is being saved, and the return leaves the list as it is.
C36_PlaceholderReplaced ==
    [][\A n \in 1..MaxSends :
          /\ Replaces(n) => Replaced(messages', n, SavedBy(n))
          /\ (SavesPlan(n) /\ Delivers
              /\ Replaced(messages, n, sends[n].savedAiMessages))
                 => Replaced(messages', n, sends[n].savedAiMessages)
          /\ (SavesPlan(n) /\ sends'[n].result = "agent")
                 => messages' = messages]_vars

\* A send of the active chat has saved its plan and returned the agent's
\* result, and every INSERT event has been delivered: the saved AI message
\* is listed, no placeholder is.
C36_Witness ==
    /\ Len(sends) = 1
    /\ sends[1].result = "agent"
    /\ activeChat = FirstChat
    /\ inbox = <<>>
    /\ \E i \in DOMAIN db : db[i].plan = ThePlan
    /\ \E i \in DOMAIN messages : messages[i].sender = "ai" /\ messages[i].id = RowId(2)
    /\ \A i \in DOMAIN messages : messages[i].id[1] # "temp-ai-"

====
